---- MODULE Spec2Model ----
(***************************************************************************)
(* A model of the vgo module core: the requirement oracle (mvsReqs), the   *)
(* MVS engine it feeds, the version query, the download cache and the      *)
(* go.sum checksum ledger.                                                 *)
(***************************************************************************)
EXTENDS Integers, Sequences, FiniteSets, TLC

VARIABLES
    \* ---- package vgo (init.go, load.go) ----
    modRequire,   \* modFile.Require: the root manifest's require list
    excluded,     \* excluded: set of module versions the root manifest excludes
    modReplace,   \* modFile.Replace: sequence of [Old, New] entries
    buildList,    \* buildList: <<>> is the nil slice
    goMod,        \* the published go.mod of every module version: its require list
    repoTags,     \* Repo.Versions(""): per module path, the tagged versions ascending
    fatal,        \* "" while the process runs, else the base.Fatalf message
    lastOp,       \* the handler that ran last
    prevList,     \* buildList as it was when the last handler started
    prevRequire,  \* modFile.Require as it was when the last handler started
    savedList,    \* the list BuildList returned when go.mod was last written
                  \* from one, <<>> when it was last written from another list
    diskFrom,     \* savedList as it was when the process started
    baseList,     \* the build list of the manifest before the last get
    upgradeList,  \* the list mvs.Upgrade returned in the last get
    upgradeArg,   \* the upgrade list of the last get
    downgradeArg, \* the downgrade list of the get in progress
    \* ---- package modfetch (repo.go, query.go) ----
    repoRevs,     \* per module path, the version each branch or commit resolves to
    infoCache,    \* the module versions with a cached .info file on disk
    qOut,         \* the result of the last Query: [info, err]
    qExpr,        \* the version expression of the last Query
    \* ---- mvsReqs.Max on a pair of versions ----
    argA, argB,   \* inputs of the function under study
    outA, outB    \* its outputs

VARIABLES
    reqArg,       \* the module mvsReqs.Required was last called with
    reqOut,       \* what that call returned: [list, err]
    GoSumFile,    \* path to go.sum, "" when package vgo set none
    sumFile,      \* the go.sum file on disk: [exists, lines]
    verifyFile,   \* the go.modverify file on disk: [exists, lines]
    goSum,        \* content of go.sum (+ go.modverify): key -> list of hashes
    goSumNil,     \* goSum == nil
    useGoSum,     \* whether to use go.sum at all
    modverify,    \* TRUE when go.modverify was read and is to be deleted
    sumFatal,     \* the message of base.Fatalf, "" while the process runs
    chkKey,       \* the key of the last checkOneSum call
    chkHash,      \* the hash it was given
    chkBefore,    \* goSum[key] when it was called (after initGoSum)
    chkUsed,      \* useGoSum when it was called (after initGoSum)
    repoZip,      \* what the repository serves for the module: [err, prefixOk, hash]
    zipCache,     \* the modules with cache/download/<path>/@v/<version>.zip
    hashCache,    \* the content of <version>.ziphash per module, "" when absent
    dirCache,     \* the modules with an extracted directory <path>@<version>
    zipSum,       \* per module, the h1 of the cached zip's bytes: "" when there
                  \* is no zip, "partial" when the copy stopped before the end
    dirSum,       \* per module, the h1 of the zip its directory was extracted from
    tmpfile,      \* TRUE while the temporary zip of downloadZip exists
    dlPc,         \* where Download is
    dlHash,       \* the hash downloadZip computed
    dlErr,        \* the error the last Download returned
    dlFresh,      \* the running Download found neither zip nor directory
    dlChecked     \* the running Download passed checkOneSum in downloadZip

VARIABLES
    \* ---- two workers in Download for the same module version ----
    wPc,          \* where each worker's Download is
    wSaw,         \* per worker, the state of the zip it last found or read
    wOut,         \* per worker, what its Download returned: "", "dir" or an error
    zipWriter,    \* the worker whose os.Create(target) came last, 0 when none
    \* ---- par.Cache under cachingRepo and mvsReqs ----
    parEntry,     \* per key, the cache entry: [made, done, result, holder]
    parRuns,      \* per key, how many times the underlying operation ran
    parSeen,      \* per key, the results callers were given
    cPc,          \* where each caller is in cache.Do
    cKey,         \* the key each caller asked for
    cGot,         \* per caller, the key and result of its last return
    \* ---- loader.importDir ----
    BuildGetmode, \* cfg.BuildGetmode: "" or "vendor"
    gorootDirs,   \* the import paths with a directory under GOROOT/src
    fetchFail,    \* the modules modfetch.Download fails for
    ldImported,   \* the paths importPkg has handled
    ldPkgmod,     \* ld.pkgmod: import path -> module, NoModule when unset
    ldMissing,    \* ld.missing: the paths appended, in order
    ldPath,       \* the path of the last importDir call, "" before the first
    ldDir,        \* the directory it returned
    ldErr,        \* what it reported through base.Errorf, "" when nothing
    \* ---- modfetch.Import ----
    gomodFail,    \* the module paths whose Repo fails GoMod for its latest version
    impPath,      \* the path Import was called with, "" when it is not running
    impCur,       \* the loop variable path
    impTried,     \* the paths try was called with, in order
    impFirstErr,  \* firstErr, "" for nil
    impOut,       \* what Import returned: [path, info, err]
    impPc,        \* "idle", "loop" or "done"
    \* ---- scanDir ----
    scanned,      \* what imports.ScanDir returned: [imports, testImports]
    scanOut,      \* what scanDir returned, <<>> before the call
    \* ---- vgo mod: the editing flags ----
    modExclude,   \* modFile.Exclude: the exclusions in file order
    modEdits,     \* modEdits: the edits the flags gave so far, in flag order
    \* ---- iterate and findMissing ----
    found,        \* found: the module roots findMissing has added
    addLog,       \* the roots findMissing added, in order
    itPc,         \* where iterate is: "start", "imports", "missing", "rebuild",
                  \* "done", "exit" (the process ended) or "spin"
    itIdx,        \* the index in ld.missing of the next findMissing call
    itErr,        \* base.Errorf was called since the last ExitIfErrors
    srcImports,   \* the imports of the target's package, as its source has them
    \* ---- mvsReqs.Upgrade ----
    tagTime,      \* the commit time of each tagged version of the repository
    upArg,        \* the module the last Upgrade was called with
    upOut,        \* what it returned: [mod, err]
    \* ---- ConvertLegacyConfig ----
    legacy,       \* result.Require: the (path, rev) pairs the converter decoded
    workItems,    \* the items of work not yet handed to a worker
    need,         \* need: per path, the largest version seen so far
    mu,           \* the holder of mu, 0 when it is free
    kPc,          \* per worker: "idle", "stat", "lock", "max"
    kItem,        \* per worker, the item it runs the function for
    kInfo,        \* per worker, the version Stat returned
    convPc,       \* ConvertLegacyConfig: "start", "do", "done"
    \* ---- FindModulePath ----
    GOPATH,       \* cfg.BuildContext.GOPATH: the list of its directories
    srcTree,      \* what the source directory holds: [top, sub, godeps, vendor, git]
    fmDir,        \* the directory of the last FindModulePath, as path elements
    fmOut         \* what it returned: [path, err]

mvsVars == <<modRequire, excluded, modReplace, buildList, goMod, repoTags,
             fatal, lastOp, prevList, prevRequire, savedList, diskFrom, baseList,
             upgradeList, upgradeArg, downgradeArg>>
repoVars == <<repoRevs, infoCache>>
qVars == <<qOut, qExpr>>
fnVars == <<argA, argB, outA, outB>>
reqVars == <<reqArg, reqOut>>
ledgerVars == <<GoSumFile, sumFile, verifyFile, goSum, goSumNil, useGoSum, modverify,
                sumFatal, chkKey, chkHash, chkBefore, chkUsed>>
cacheVars == <<repoZip, zipCache, hashCache, dirCache, zipSum, dirSum, tmpfile, dlPc, dlHash, dlErr,
               dlFresh, dlChecked>>
sumVars == <<ledgerVars, cacheVars>>
raceVars == <<wPc, wSaw, wOut, zipWriter>>
parVars == <<parEntry, parRuns, parSeen, cPc, cKey, cGot>>
importVars == <<BuildGetmode, gorootDirs, fetchFail, ldImported, ldPkgmod, ldMissing,
                ldPath, ldDir, ldErr>>
discVars == <<gomodFail, impPath, impCur, impTried, impFirstErr, impOut, impPc>>
scanVars == <<scanned, scanOut>>
editVars == <<modExclude, modEdits>>
iterVars == <<found, addLog, itPc, itIdx, itErr, srcImports>>
upVars == <<tagTime, upArg, upOut>>
convVars == <<legacy, workItems, need, mu, kPc, kItem, kInfo, convPc>>
findVars == <<GOPATH, srcTree, fmDir, fmOut>>
extraVars == <<editVars, iterVars, upVars, convVars, findVars>>
restVars == <<raceVars, parVars, importVars, discVars, scanVars, extraVars>>
vars == <<mvsVars, repoVars, qVars, fnVars, reqVars, sumVars, restVars>>

\* What the actions of the loader and of get leave alone.
loaderRest == <<repoVars, qVars, fnVars, reqVars, sumVars, restVars>>

----------------------------------------------------------------------------
(* Sequence helpers. *)

Range(s) == {s[i] : i \in 1..Len(s)}

\* The element of a set of one.
Only(S) == CHOOSE x \in S : TRUE

----------------------------------------------------------------------------
(* Module paths and versions of the modelled universe. *)

TargetPath == "t"
DepPaths == {"a", "b", "c"}
AllPaths == DepPaths \cup {TargetPath}

\* Byte order of the module paths (Go's string <).
PathRank == [p \in AllPaths \cup {"a/b", "a/b/c", "ab", "d", "github.com/x/y",
                                    "github.com/x/y/z"} |->
    CASE p = "a" -> 1 [] p = "a/b" -> 2 [] p = "a/b/c" -> 3 [] p = "ab" -> 4
      [] p = "b" -> 5 [] p = "c" -> 6 [] p = "d" -> 7 [] p = "github.com/x/y" -> 8
      [] p = "github.com/x/y/z" -> 9 [] p = "t" -> 10]

\* module.Version{Path, Version}
MV(p, v) == [Path |-> p, Version |-> v]

\* The zero module.Version.
NoModule == MV("", "")

----------------------------------------------------------------------------
(* Package semver: strings are atomic here, so parsing is a table from the *)
(* version strings of the universe to <<major, minor, patch, release>>,    *)
(* release = 0 for a prerelease (it orders before the same base) and -1    *)
(* for the prerelease -1, whose numeric identifier orders before the       *)
(* pseudo-version's.                                                       *)

SemverParsed ==
    [v \in {"v1", "v1.1", "v0.9.0", "v1.0.0", "v1.1.0-pre", "v1.1.0", "v1.2.0-pre",
            "v1.2.0", "v2.0.0", "v0.0.0-20180214004520-f488df80bcdb", "v0.0.0-1"} |->
        CASE v = "v1" -> <<1, 0, 0, 1>>
          [] v = "v0.0.0-1" -> <<0, 0, 0, -1>>
          [] v = "v0.9.0" -> <<0, 9, 0, 1>>
          [] v = "v2.0.0" -> <<2, 0, 0, 1>>
          [] v = "v1.1" -> <<1, 1, 0, 1>>
          [] v = "v1.0.0" -> <<1, 0, 0, 1>>
          [] v = "v1.1.0-pre" -> <<1, 1, 0, 0>>
          [] v = "v1.1.0" -> <<1, 1, 0, 1>>
          [] v = "v1.2.0-pre" -> <<1, 2, 0, 0>>
          [] v = "v1.2.0" -> <<1, 2, 0, 1>>
          [] v = "v0.0.0-20180214004520-f488df80bcdb" -> <<0, 0, 0, 0>>]

IsValid(v) == v \in DOMAIN SemverParsed

\* semver.Canonical: pad the short forms with zeros.
Canonical(v) ==
    CASE v = "v1" -> "v1.0.0"
      [] v = "v1.1" -> "v1.1.0"
      [] IsValid(v) -> v
      [] OTHER -> ""

\* semver.Prerelease: the prerelease suffix, "" for a release.
Prerelease(v) ==
    CASE v \in {"v1.1.0-pre", "v1.2.0-pre"} -> "-pre"
      [] v = "v0.0.0-20180214004520-f488df80bcdb" -> "-20180214004520-f488df80bcdb"
      [] v = "v0.0.0-1" -> "-1"
      [] OTHER -> ""

RECURSIVE CompareKey(_, _, _)
CompareKey(k1, k2, i) ==
    IF i > Len(k1) THEN 0
    ELSE IF k1[i] < k2[i] THEN -1
    ELSE IF k1[i] > k2[i] THEN 1
    ELSE CompareKey(k1, k2, i + 1)

\* semver.Compare: -1, 0 or +1; an invalid version is less than a valid one
\* and all invalid versions are equal.
Compare(v, w) ==
    CASE ~IsValid(v) /\ ~IsValid(w) -> 0
      [] ~IsValid(v) -> -1
      [] ~IsValid(w) -> 1
      [] OTHER -> CompareKey(SemverParsed[v], SemverParsed[w], 1)

----------------------------------------------------------------------------
(* Package vgo: the requirement oracle mvsReqs (load.go). *)

Target == MV(TargetPath, "")

\* mvsReqs.Max with the arguments swapped in the comparison.
MaxMin(v1, v2) ==
    IF v1 # "" /\ Compare(v1, v2) = 1 THEN v2 ELSE v1

\* mvsReqs.Max without the comparison.
MaxFirst(v1, v2) == v1

\* mvsReqs.Max
Max(v1, v2) ==
    IF v1 # "" /\ Compare(v1, v2) = -1 THEN v2 ELSE v1

\* allowed (init.go)
allowed(m) == m \notin excluded

\* Replacement: the New of the last replace entry whose Old equals mod.
Replacement(mod) ==
    LET hits == {i \in 1..Len(modReplace) : modReplace[i].Old = mod}
    IN IF hits = {} THEN NoModule
       ELSE modReplace[CHOOSE i \in hits : \A j \in hits : j <= i].New

\* versions: Lookup(path) then repo.Versions("").
versions(path) ==
    IF path \in DOMAIN repoTags
    THEN [list |-> repoTags[path], err |-> ""]
    ELSE [list |-> <<>>, err |-> "lookup"]

\* sort.Search: the first index of hits, n + 1 when there is none.
SearchFirst(hits, n) ==
    IF hits = {} THEN n + 1 ELSE CHOOSE i \in hits : \A j \in hits : i <= j

\* mvsReqs.next: the next tagged version of m.Path after m.Version, or "none".
next(m) ==
    LET vs == versions(m.Path) IN
    IF vs.err # "" THEN [mod |-> NoModule, err |-> vs.err]
    ELSE LET i == SearchFirst({j \in 1..Len(vs.list) :
                                  Compare(vs.list[j], m.Version) > 0}, Len(vs.list))
         IN IF i <= Len(vs.list)
            THEN [mod |-> MV(m.Path, vs.list[i]), err |-> ""]
            ELSE [mod |-> MV(m.Path, "none"), err |-> ""]

\* mvsReqs.Previous: the tagged version of m.Path just before m.Version, or
\* "none".
Previous(m) ==
    LET vs == versions(m.Path) IN
    IF vs.err # "" THEN [mod |-> NoModule, err |-> vs.err]
    ELSE LET i == SearchFirst({j \in 1..Len(vs.list) :
                                  Compare(vs.list[j], m.Version) >= 0}, Len(vs.list))
         IN IF i > 1
            THEN [mod |-> MV(m.Path, vs.list[i - 1]), err |-> ""]
            ELSE [mod |-> MV(m.Path, "none"), err |-> ""]

\* modfetch.GoMod followed by modfile.Parse: the require list of the published
\* go.mod of mod, or an error when the version has no go.mod.
GoMod(mod) ==
    IF mod \in DOMAIN goMod
    THEN [list |-> goMod[mod], err |-> ""]
    ELSE [list |-> <<>>, err |-> "gomod"]

\* mvsReqs.required with buildList[2:] for buildList[1:].
requiredSkip(mod, extra) ==
    IF mod = Target
    THEN IF buildList # <<>>
         THEN [list |-> SubSeq(buildList, 3, Len(buildList)), err |-> ""]
         ELSE [list |-> modRequire \o extra, err |-> ""]
    ELSE GoMod(mod)

\* mvsReqs.required reading modFile.Require[1:] for modFile.Require.
requiredDropFirst(mod, extra) ==
    IF mod = Target
    THEN IF buildList # <<>>
         THEN [list |-> Tail(buildList), err |-> ""]
         ELSE [list |-> SubSeq(modRequire, 2, Len(modRequire)) \o extra, err |-> ""]
    ELSE GoMod(mod)

\* mvsReqs.required for the target: buildList[1:] once the build list is set,
\* else the manifest's requirements.
targetReqs(list, extra) ==
    IF list # <<>> THEN Tail(list) ELSE modRequire \o extra

\* mvsReqs.required
required(mod, extra) ==
    IF mod = Target
    THEN [list |-> targetReqs(buildList, extra), err |-> ""]
    ELSE LET repl == Replacement(mod)
             mod1 == IF repl.Path # "" /\ repl.Version # "" THEN repl ELSE mod
         IN IF repl.Path # "" /\ repl.Version = ""
            THEN \* a replacement by a local directory: its go.mod is read
                 GoMod(repl)
            ELSE IF mod1.Version = "none" THEN [list |-> <<>>, err |-> ""]
            ELSE IF ~IsValid(mod1.Version) THEN [list |-> <<>>, err |-> "panic"]
            ELSE GoMod(mod1)

\* The loop "for excluded[mv]" of mvsReqs.Required.
RECURSIVE skipExcluded(_)
skipExcluded(mv) ==
    IF mv \notin excluded THEN [mod |-> mv, err |-> ""]
    ELSE Only({IF n.err # "" THEN [mod |-> NoModule, err |-> n.err]
               ELSE IF n.mod.Version = "none"
               THEN [mod |-> NoModule, err |-> "no newer version available"]
               ELSE skipExcluded(n.mod)
               : n \in {next(mv)}})

RECURSIVE substitute(_, _, _)
substitute(list, i, acc) ==
    IF i > Len(list) THEN [list |-> acc, err |-> ""]
    ELSE Only({IF s.err # "" THEN [list |-> <<>>, err |-> s.err]
               ELSE substitute(l, i + 1, Append(a, s.mod))
               : l \in {list}, a \in {acc}, s \in {skipExcluded(list[i])}})

\* mvsReqs.Required without the exclusion loop.
RequiredKeep(mod) == required(mod, <<>>)

\* mvsReqs.Required
Required(mod) ==
    Only({IF r.err # "" THEN [list |-> <<>>, err |-> r.err]
          ELSE substitute(r.list, 1, <<>>)
          : r \in {required(mod, <<>>)}})

----------------------------------------------------------------------------
(* Package modfetch: Repo, Lookup and Query (repo.go, query.go). *)

\* The pseudo-version of the commit f488df80bcdb.
PseudoVersion == "v0.0.0-20180214004520-f488df80bcdb"

\* RevInfo: only the version is modelled.
RevInfo(v) == [Version |-> v]

InfoOk(v) == [info |-> RevInfo(v), err |-> ""]
InfoErr(e) == [info |-> RevInfo(""), err |-> e]

\* Lookup: the repository of a module path, or an error for a path no code
\* host serves.
Lookup(path) == IF path \in DOMAIN repoTags THEN "" ELSE "lookup"

\* Repo.Stat: a tag is its own version, a pseudo-version is served when its
\* commit exists, a branch or commit resolves to a tag or a pseudo-version.
repoStat(path, rev) ==
    IF IsValid(rev)
    THEN IF \/ rev \in Range(repoTags[path])
            \/ rev = PseudoVersion /\ repoRevs[path]["f488df80bcdb"] # ""
         THEN InfoOk(rev)
         ELSE InfoErr("unknown revision")
    ELSE IF rev \in DOMAIN repoRevs[path] /\ repoRevs[path][rev] # ""
         THEN InfoOk(repoRevs[path][rev])
         ELSE InfoErr("unknown revision")

\* Repo.Latest: the pseudo-version of the head of the default branch.
repoLatest(path) ==
    IF repoRevs[path]["master"] # "" THEN InfoOk(PseudoVersion)
    ELSE InfoErr("no commits")

\* modfetch.Stat over a given set of cached .info files: the cached file,
\* else Lookup and Repo.Stat.
StatIn(cache, path, vers) ==
    IF MV(path, vers) \in cache THEN InfoOk(vers)
    ELSE IF Lookup(path) # "" THEN InfoErr(Lookup(path))
    ELSE repoStat(path, vers)

\* modfetch.Stat
Stat(path, vers) == StatIn(infoCache, path, vers)

\* The range expressions: vers[:1] and vers[1:].
RangeParse ==
    [e \in {">v1.0.0", ">v1.1.0", "<v1.1.0", "<v1.0.0", "<v1.2.0", ">bogus"} |->
        CASE e = ">v1.0.0" -> <<">", "v1.0.0">>
          [] e = ">v1.1.0" -> <<">", "v1.1.0">>
          [] e = "<v1.1.0" -> <<"<", "v1.1.0">>
          [] e = "<v1.0.0" -> <<"<", "v1.0.0">>
          [] e = "<v1.2.0" -> <<"<", "v1.2.0">>
          [] e = ">bogus" -> <<">", "bogus">>]

\* LastOf that runs the loop from the front.
LastOfFront(hits) == IF hits = {} THEN 0 ELSE CHOOSE i \in hits : \A j \in hits : i <= j

\* FirstOf that runs the loop from the back.
FirstOfBack(hits) == IF hits = {} THEN 0 ELSE CHOOSE i \in hits : \A j \in hits : j <= i

\* The last index of hits, 0 when there is none.
LastOf(hits) == IF hits = {} THEN 0 ELSE CHOOSE i \in hits : \A j \in hits : j <= i

\* The first index of hits, 0 when there is none.
FirstOf(hits) == IF hits = {} THEN 0 ELSE CHOOSE i \in hits : \A j \in hits : i <= j

\* Query for "latest" and the ranges, over the tagged versions of the repo.
queryVersions(path, op, vers) ==
    LET list == repoTags[path]
        ok(i) == allowed(MV(path, list[i]))
        idx == 1..Len(list)
    IN IF Len(list) = 0 /\ vers = "latest" THEN repoLatest(path)
       ELSE IF vers = "latest"
       THEN LET rel == LastOf({i \in idx : Prerelease(list[i]) = "" /\ ok(i)})
                pre == LastOf({i \in idx : Prerelease(list[i]) # "" /\ ok(i)})
            IN IF rel # 0 THEN repoStat(path, list[rel])
               ELSE IF pre # 0 THEN repoStat(path, list[pre])
               ELSE InfoErr("no matching versions")
       ELSE IF op = "<"
       THEN LET i == LastOf({j \in idx : Compare(list[j], vers) < 0 /\ ok(j)})
            IN IF i # 0 THEN repoStat(path, list[i])
               ELSE InfoErr("no matching versions")
       ELSE LET i == FirstOf({j \in idx : Compare(list[j], vers) > 0 /\ ok(j)})
            IN IF i # 0 THEN repoStat(path, list[i])
               ELSE InfoErr("no matching versions")

\* Query with the .info files of the download cache given.
QueryIn(cache, path, vers) ==
    IF IsValid(vers)
    THEN LET c == Canonical(vers) IN
         IF ~allowed(MV(path, c)) THEN InfoErr("excluded")
         ELSE IF StatIn(cache, path, c).err = "" THEN StatIn(cache, path, c)
         ELSE IF Lookup(path) # "" THEN InfoErr(Lookup(path))
         ELSE repoStat(path, c)
    ELSE IF Lookup(path) # "" THEN InfoErr(Lookup(path))
    ELSE IF vers \in DOMAIN RangeParse
    THEN IF ~IsValid(RangeParse[vers][2])
         THEN InfoErr("invalid semantic version in range")
         ELSE queryVersions(path, RangeParse[vers][1], RangeParse[vers][2])
    ELSE IF vers = "latest" THEN queryVersions(path, "", "latest")
    ELSE repoStat(path, vers)

\* Query
Query(path, vers) == QueryIn(infoCache, path, vers)

----------------------------------------------------------------------------
(* Package modfetch: the go.sum ledger and the download cache (fetch.go).  *)

\* The hashes: dirhash.HashZip gives an h1: hash; h2:C stands for a hash of
\* an algorithm this program does not compute.
Hashes == {"h1:A", "h1:B", "h2:C"}

\* strings.HasPrefix(h, "h1:")
IsH1(h) == h \in {"h1:A", "h1:B"}

\* The order of sort.Strings on the hashes.
HashRank == [h \in Hashes |-> CASE h = "h1:A" -> 1 [] h = "h1:B" -> 2 [] h = "h2:C" -> 3]

\* The module Download is called with, and the ledger's keys for it and for
\* its go.mod.
DlMod == MV("a", "v1.0.0")
GoModKey(path, version) == MV(path, version \o "/go.mod")

NoFile == [exists |-> FALSE, lines |-> <<>>]
File(lines) == [exists |-> TRUE, lines |-> lines]
SumLine(key, h) == [key |-> key, hash |-> h]

\* goSum[mod] of a Go map: the empty list for a key it does not hold.
sumOf(sum, mod) == IF mod \in DOMAIN sum THEN sum[mod] ELSE <<>>

\* goSum[mod] = list
sumPut(sum, mod, list) ==
    [k \in DOMAIN sum \cup {mod} |-> IF k = mod THEN list ELSE sum[k]]

\* readGoSum: every line's hash is appended to the list of the line's key.
RECURSIVE readGoSum(_, _, _)
readGoSum(sum, lines, i) ==
    Only({IF i > Len(lines) THEN m
          ELSE readGoSum(sumPut(m, lines[i].key,
                                Append(sumOf(m, lines[i].key), lines[i].hash)),
                         lines, i + 1)
          : m \in {sum}})

\* The ledger of the running process.
Ledger == [goSum |-> goSum, nil |-> goSumNil, use |-> useGoSum, modverify |-> modverify]

\* initGoSum: nothing when goSum is set or there is no GoSumFile; else goSum
\* is made, and when go.sum exists it is read, then go.modverify when that
\* exists.
initGoSum(l) ==
    IF ~l.nil \/ GoSumFile = "" THEN l
    ELSE IF ~sumFile.exists
    THEN [l EXCEPT !.goSum = <<>>, !.nil = FALSE]
    ELSE LET own == readGoSum(<<>>, sumFile.lines, 1)
         IN [goSum |-> IF verifyFile.exists
                       THEN readGoSum(own, verifyFile.lines, 1) ELSE own,
             nil |-> FALSE,
             use |-> TRUE,
             modverify |-> verifyFile.exists]

\* The loop of checkOneSum over goSum[mod]: "ok" at a hash equal to h,
\* "mismatch" at an h1: hash met before one, "add" at the end of the list.
RECURSIVE scanSum(_, _, _)
scanSum(list, i, h) ==
    IF i > Len(list) THEN "add"
    ELSE IF list[i] = h THEN "ok"
    ELSE IF IsH1(list[i]) THEN "mismatch"
    ELSE scanSum(list, i + 1, h)

\* checkOneSum that appends the hash where checkOneSum stops the process.
checkOneSumAppend(l0, mod, h) ==
    LET l == initGoSum(l0) IN
    IF ~l.use THEN [l |-> l, fatal |-> ""]
    ELSE IF scanSum(sumOf(l.goSum, mod), 1, h) = "ok" THEN [l |-> l, fatal |-> ""]
    ELSE [l |-> [l EXCEPT !.goSum = sumPut(l.goSum, mod, Append(sumOf(l.goSum, mod), h))],
          fatal |-> ""]

\* checkOneSum that stores the hash as the key's only entry.
checkOneSumReplace(l0, mod, h) ==
    LET l == initGoSum(l0)
        r == scanSum(sumOf(l.goSum, mod), 1, h)
    IN IF ~l.use THEN [l |-> l, fatal |-> ""]
       ELSE IF r = "ok" THEN [l |-> l, fatal |-> ""]
       ELSE IF r = "mismatch" THEN [l |-> l, fatal |-> "checksum mismatch"]
       ELSE [l |-> [l EXCEPT !.goSum = sumPut(l.goSum, mod, <<h>>)], fatal |-> ""]

\* checkOneSum
checkOneSum(l0, mod, h) ==
    LET l == initGoSum(l0)
        r == scanSum(sumOf(l.goSum, mod), 1, h)
    IN IF ~l.use THEN [l |-> l, fatal |-> ""]
       ELSE IF r = "ok" THEN [l |-> l, fatal |-> ""]
       ELSE IF r = "mismatch" THEN [l |-> l, fatal |-> "checksum mismatch"]
       ELSE [l |-> [l EXCEPT !.goSum = sumPut(l.goSum, mod, Append(sumOf(l.goSum, mod), h))],
             fatal |-> ""]

\* checkSum: the .ziphash file of mod is checked against the ledger.
checkSum(l0, mod) ==
    LET l == initGoSum(l0) IN
    IF ~l.use THEN [l |-> l, fatal |-> "", checked |-> FALSE]
    ELSE IF hashCache[mod] = "" THEN [l |-> l, fatal |-> "no ziphash", checked |-> FALSE]
    ELSE IF ~IsH1(hashCache[mod])
    THEN [l |-> l, fatal |-> "unexpected ziphash", checked |-> FALSE]
    ELSE [l |-> checkOneSum(l, mod, hashCache[mod]).l,
          fatal |-> checkOneSum(l, mod, hashCache[mod]).fatal,
          checked |-> TRUE]

\* The ledger after a call, and the record of the last checkOneSum call.
SetLedger(l, f) ==
    /\ goSum' = l.goSum
    /\ goSumNil' = l.nil
    /\ useGoSum' = l.use
    /\ modverify' = l.modverify
    /\ sumFatal' = f

NoteCheck(mod, h) ==
    /\ chkKey' = mod
    /\ chkHash' = h
    /\ chkBefore' = sumOf(initGoSum(Ledger).goSum, mod)
    /\ chkUsed' = initGoSum(Ledger).use

NoCheck == UNCHANGED <<chkKey, chkHash, chkBefore, chkUsed>>

files == <<GoSumFile, sumFile, verifyFile>>
cacheDisk == <<zipCache, hashCache, dirCache, zipSum, dirSum>>
sumRest == <<mvsVars, repoVars, qVars, fnVars, reqVars, restVars>>

\* Download up to the choice between the extracted directory, the cached zip
\* and downloadZip.
DownloadStart ==
    /\ sumFatal = "" /\ dlPc = "idle"
    /\ dlPc' = IF DlMod \in dirCache THEN "checkSum"
               ELSE IF DlMod \in zipCache THEN "unzip" ELSE "fetch"
    /\ dlFresh' = (DlMod \notin dirCache /\ DlMod \notin zipCache)
    /\ dlChecked' = FALSE
    /\ dlErr' = ""
    /\ dlHash' = ""
    /\ UNCHANGED <<ledgerVars, repoZip, cacheDisk, tmpfile>>
    /\ UNCHANGED sumRest

\* downloadZip: Lookup and repo.Zip into a temporary file.
DlFetch ==
    /\ sumFatal = "" /\ dlPc = "fetch"
    /\ IF repoZip.err # ""
       THEN dlPc' = "idle" /\ dlErr' = repoZip.err /\ tmpfile' = FALSE
       ELSE dlPc' = "validate" /\ dlErr' = "" /\ tmpfile' = TRUE
    /\ UNCHANGED <<ledgerVars, repoZip, cacheDisk, dlHash, dlFresh, dlChecked>>
    /\ UNCHANGED sumRest

\* downloadZip: every entry of the zip has the prefix <path>@<version>, then
\* dirhash.HashZip; on error the deferred os.Remove deletes the temporary file.
DlValidate ==
    /\ sumFatal = "" /\ dlPc = "validate"
    /\ IF ~repoZip.prefixOk
       THEN dlPc' = "idle" /\ dlErr' = "unexpected file" /\ tmpfile' = FALSE
            /\ dlHash' = dlHash
       ELSE dlPc' = "check" /\ dlErr' = "" /\ tmpfile' = tmpfile
            /\ dlHash' = repoZip.hash
    /\ UNCHANGED <<ledgerVars, repoZip, cacheDisk, dlFresh, dlChecked>>
    /\ UNCHANGED sumRest

\* downloadZip with the zip installed before checkOneSum is called.
DlInstallThenCheck ==
    /\ sumFatal = "" /\ dlPc = "check"
    /\ LET r == checkOneSum(Ledger, DlMod, dlHash) IN
       /\ SetLedger(r.l, r.fatal)
       /\ dlChecked' = (r.fatal = "")
       /\ dlPc' = IF r.fatal = "" THEN "writeHash" ELSE dlPc
    /\ zipCache' = zipCache \cup {DlMod}
    /\ zipSum' = [zipSum EXCEPT ![DlMod] = dlHash]
    /\ NoteCheck(DlMod, dlHash)
    /\ UNCHANGED <<files, repoZip, hashCache, dirCache, dirSum, tmpfile, dlHash, dlErr,
                   dlFresh>>
    /\ UNCHANGED sumRest

\* downloadZip: checkOneSum(mod, hash), "check before installing the zip
\* file". base.Fatalf ends the process where it stands.
DlCheckOneSum ==
    /\ sumFatal = "" /\ dlPc = "check"
    /\ LET r == checkOneSum(Ledger, DlMod, dlHash) IN
       /\ SetLedger(r.l, r.fatal)
       /\ dlChecked' = (r.fatal = "")
       /\ dlPc' = IF r.fatal = "" THEN "install" ELSE dlPc
    /\ NoteCheck(DlMod, dlHash)
    /\ UNCHANGED <<files, repoZip, cacheDisk, tmpfile, dlHash, dlErr, dlFresh>>
    /\ UNCHANGED sumRest

\* downloadZip: os.Create(target) and io.Copy, which may fail once the target
\* exists; the target then holds the bytes copied so far.
DlInstall ==
    /\ sumFatal = "" /\ dlPc = "install"
    /\ zipCache' = zipCache \cup {DlMod}
    /\ \E copied \in BOOLEAN :
        IF copied
        THEN /\ dlPc' = "writeHash" /\ dlErr' = "" /\ tmpfile' = tmpfile
             /\ zipSum' = [zipSum EXCEPT ![DlMod] = dlHash]
        ELSE /\ dlPc' = "idle" /\ dlErr' = "copying" /\ tmpfile' = FALSE
             /\ zipSum' = [zipSum EXCEPT ![DlMod] = "partial"]
    /\ UNCHANGED <<ledgerVars, repoZip, hashCache, dirCache, dirSum, dlHash, dlFresh,
                   dlChecked>>
    /\ UNCHANGED sumRest

\* downloadZip: w.Close, then the hash is written to <version>.ziphash and
\* downloadZip returns what ioutil.WriteFile returned; either may fail, and
\* the installed zip stays where it is.
DlWriteHash ==
    /\ sumFatal = "" /\ dlPc = "writeHash"
    /\ tmpfile' = FALSE
    /\ \E written \in BOOLEAN :
        IF written
        THEN /\ hashCache' = [hashCache EXCEPT ![DlMod] = dlHash]
             /\ dlPc' = "unzip" /\ dlErr' = ""
        ELSE /\ hashCache' = hashCache
             /\ dlPc' = "idle" /\ dlErr' = "write"
    /\ UNCHANGED <<ledgerVars, repoZip, zipCache, dirCache, zipSum, dirSum, dlHash,
                   dlFresh, dlChecked>>
    /\ UNCHANGED sumRest

\* Unzip(dir, zipfile, prefix, 0): the files of a zip that reads to its end
\* are written under dir; a failed unzip leaves no directory behind.
Unzip(mod, ok) ==
    IF ok /\ zipSum[mod] \notin {"", "partial"}
    THEN [dirs |-> dirCache \cup {mod}, sums |-> [dirSum EXCEPT ![mod] = zipSum[mod]],
          err |-> ""]
    ELSE [dirs |-> dirCache, sums |-> dirSum, err |-> "unzip"]

\* Download: Unzip(dir, zipfile, modpath, 0), whose error Download returns.
DlUnzip ==
    /\ sumFatal = "" /\ dlPc = "unzip"
    /\ \E ok \in BOOLEAN : \E r \in {Unzip(DlMod, ok)} :
        /\ dirCache' = r.dirs
        /\ dirSum' = r.sums
        /\ dlErr' = r.err
        /\ dlPc' = IF r.err = "" THEN "checkSum" ELSE "idle"
    /\ UNCHANGED <<ledgerVars, repoZip, zipCache, hashCache, zipSum, tmpfile, dlHash,
                   dlFresh, dlChecked>>
    /\ UNCHANGED sumRest

\* Download: checkSum(mod), and the directory is returned.
DlCheckSum ==
    /\ sumFatal = "" /\ dlPc = "checkSum"
    /\ LET r == checkSum(Ledger, DlMod) IN
       /\ SetLedger(r.l, r.fatal)
       /\ dlPc' = IF r.fatal = "" THEN "idle" ELSE dlPc
       /\ IF r.checked THEN NoteCheck(DlMod, hashCache[DlMod]) ELSE NoCheck
    /\ UNCHANGED <<files, repoZip, cacheDisk, tmpfile, dlHash, dlErr, dlFresh, dlChecked>>
    /\ UNCHANGED sumRest

\* checkGoMod: the h1 of a go.mod file is checked under the key
\* <version>/go.mod.
CheckGoMod ==
    /\ sumFatal = "" /\ dlPc = "idle"
    /\ \E h \in {"h1:A", "h1:B"} :
        LET key == GoModKey(DlMod.Path, DlMod.Version)
            l == initGoSum(Ledger)
            r == checkOneSum(Ledger, key, h)
        IN /\ SetLedger(r.l, r.fatal)
           /\ IF l.use THEN NoteCheck(key, h) ELSE NoCheck
    /\ UNCHANGED <<files, cacheVars>>
    /\ UNCHANGED sumRest

\* The keys in the order of module.Sort, the hashes in that of sort.Strings.
RECURSIVE SortKeys(_)
SortKeys(S) ==
    IF S = {} THEN <<>>
    ELSE Only({<<k>> \o SortKeys(S \ {k})
               : k \in {CHOOSE x \in S : \A y \in S :
                      \/ PathRank[x.Path] < PathRank[y.Path]
                      \/ x.Path = y.Path /\ Len(x.Version) <= Len(y.Version)}})

RECURSIVE SortHashes(_)
SortHashes(list) ==
    IF list = <<>> THEN <<>>
    ELSE LET i == CHOOSE x \in 1..Len(list) :
                      \A y \in 1..Len(list) : HashRank[list[x]] <= HashRank[list[y]]
         IN <<list[i]>> \o SortHashes([j \in 1..(Len(list) - 1) |->
                                          IF j < i THEN list[j] ELSE list[j + 1]])

RECURSIVE sumLines(_, _, _)
sumLines(sum, keys, i) ==
    IF i > Len(keys) THEN <<>>
    ELSE [j \in 1..Len(sum[keys[i]]) |-> SumLine(keys[i], sum[keys[i]][j])]
         \o sumLines(sum, keys, i + 1)

\* WriteGoSum: with the ledger in use, every list is sorted in place, go.sum
\* is rewritten when its content differs, and go.modverify is removed.
WriteGoSum ==
    /\ sumFatal = "" /\ dlPc = "idle"
    /\ IF ~useGoSum THEN UNCHANGED <<goSum, sumFile, verifyFile>>
       ELSE LET sorted == [k \in DOMAIN goSum |-> SortHashes(goSum[k])]
            IN /\ goSum' = sorted
               /\ sumFile' = File(sumLines(sorted, SortKeys(DOMAIN sorted), 1))
               /\ verifyFile' = IF modverify THEN NoFile ELSE verifyFile
    /\ UNCHANGED <<GoSumFile, goSumNil, useGoSum, modverify, sumFatal, cacheVars>>
    /\ NoCheck
    /\ UNCHANGED sumRest

\* The process ends and another starts on the same disk.
RestartSum ==
    /\ dlPc = "idle" \/ sumFatal # ""
    /\ goSum' = <<>>
    /\ goSumNil' = TRUE
    /\ useGoSum' = FALSE
    /\ modverify' = FALSE
    /\ sumFatal' = ""
    /\ chkKey' = NoModule /\ chkHash' = "" /\ chkBefore' = <<>> /\ chkUsed' = FALSE
    /\ dlPc' = "idle" /\ dlHash' = "" /\ dlErr' = "" /\ dlFresh' = FALSE
    /\ dlChecked' = FALSE
    /\ UNCHANGED <<files, repoZip, cacheDisk, tmpfile>>
    /\ UNCHANGED sumRest

MaxSumLines == 2

SumLineChoices ==
    {SumLine(DlMod, h) : h \in Hashes} \cup {SumLine(GoModKey("a", "v1.0.0"), "h1:A")}

RECURSIVE SeqsOver(_, _)
SeqsOver(S, n) ==
    IF n = 0 THEN {<<>>}
    ELSE Only({shorter \cup
               {Append(q, x) : q \in {r \in shorter : Len(r) = n - 1}, x \in S}
               : shorter \in {SeqsOver(S, n - 1)}})

\* ---- Download called by two workers for the same module version ----

Workers == {1, 2}

raceRest == <<mvsVars, repoVars, qVars, fnVars, reqVars, ledgerVars, repoZip, tmpfile,
              dlPc, dlHash, dlErr, dlFresh, dlChecked, parVars, importVars, discVars,
              scanVars, extraVars>>

\* Download: ioutil.ReadDir(dir); with files in the directory checkSum runs,
\* which returns at once while no go.sum is in use, and dir is returned.
RaceReadDir(w) ==
    /\ wPc[w] = "idle"
    /\ IF DlMod \in dirCache
       THEN wPc' = [wPc EXCEPT ![w] = "done"] /\ wOut' = [wOut EXCEPT ![w] = "dir"]
       ELSE wPc' = [wPc EXCEPT ![w] = "stat"] /\ wOut' = [wOut EXCEPT ![w] = ""]
    /\ UNCHANGED <<cacheDisk, wSaw, zipWriter>>
    /\ UNCHANGED raceRest

\* Download: os.Stat(zipfile); a file that exists is used as it is.
RaceStat(w) ==
    /\ wPc[w] = "stat"
    /\ IF DlMod \in zipCache
       THEN /\ wPc' = [wPc EXCEPT ![w] = "unzip"]
            /\ wSaw' = [wSaw EXCEPT ![w] = zipSum[DlMod]]
       ELSE /\ wPc' = [wPc EXCEPT ![w] = "fetch"]
            /\ wSaw' = wSaw
    /\ UNCHANGED <<cacheDisk, wOut, zipWriter>>
    /\ UNCHANGED raceRest

\* downloadZip up to os.Create: Lookup, repo.Zip into the worker's own
\* temporary file, the prefix check, HashZip and checkOneSum, which returns
\* at once while no go.sum is in use.
RaceFetch(w) ==
    /\ wPc[w] = "fetch"
    /\ IF repoZip.err # "" \/ ~repoZip.prefixOk
       THEN /\ wPc' = [wPc EXCEPT ![w] = "done"]
            /\ wOut' = [wOut EXCEPT ![w] = "zip"]
       ELSE /\ wPc' = [wPc EXCEPT ![w] = "create"]
            /\ wOut' = wOut
    /\ UNCHANGED <<cacheDisk, wSaw, zipWriter>>
    /\ UNCHANGED raceRest

\* downloadZip: os.Create(target) makes the file, or truncates the one that
\* is there, under the name every Download looks for.
RaceCreate(w) ==
    /\ wPc[w] = "create"
    /\ zipCache' = zipCache \cup {DlMod}
    /\ zipSum' = [zipSum EXCEPT ![DlMod] = "partial"]
    /\ zipWriter' = w
    /\ wPc' = [wPc EXCEPT ![w] = "copy"]
    /\ UNCHANGED <<hashCache, dirCache, dirSum, wSaw, wOut>>
    /\ UNCHANGED raceRest

\* downloadZip: io.Copy reaches the end and w.Close; the file holds the whole
\* zip unless another worker truncated it after this worker created it.
RaceCopy(w) ==
    /\ wPc[w] = "copy"
    /\ zipSum' = IF zipWriter = w THEN [zipSum EXCEPT ![DlMod] = repoZip.hash]
                 ELSE zipSum
    /\ wPc' = [wPc EXCEPT ![w] = "writeHash"]
    /\ UNCHANGED <<zipCache, hashCache, dirCache, dirSum, wSaw, wOut, zipWriter>>
    /\ UNCHANGED raceRest

\* downloadZip: ioutil.WriteFile(target+"hash", hash).
RaceWriteHash(w) ==
    /\ wPc[w] = "writeHash"
    /\ hashCache' = [hashCache EXCEPT ![DlMod] = repoZip.hash]
    /\ wPc' = [wPc EXCEPT ![w] = "unzip"]
    /\ UNCHANGED <<zipCache, dirCache, zipSum, dirSum, wSaw, wOut, zipWriter>>
    /\ UNCHANGED raceRest

\* Download: Unzip, then checkSum and the return. The worker unpacks the zip
\* as it finds it; the first to finish puts the directory in place and the
\* second finds it there.
RaceUnzip(w) ==
    /\ wPc[w] = "unzip"
    /\ wSaw' = [wSaw EXCEPT ![w] = IF @ = "partial" THEN @ ELSE zipSum[DlMod]]
    /\ \E r \in {Unzip(DlMod, TRUE)} :
        /\ dirCache' = r.dirs
        /\ dirSum' = IF DlMod \in dirCache THEN dirSum ELSE r.sums
        /\ wOut' = [wOut EXCEPT ![w] = IF r.err = "" THEN "dir" ELSE r.err]
    /\ wPc' = [wPc EXCEPT ![w] = "done"]
    /\ UNCHANGED <<zipCache, hashCache, zipSum, zipWriter>>
    /\ UNCHANGED raceRest

\* No worker is in Download.
RaceIdle ==
    /\ wPc = [w \in Workers |-> "idle"]
    /\ wSaw = [w \in Workers |-> ""]
    /\ wOut = [w \in Workers |-> ""]
    /\ zipWriter = 0

\* ---- par.Cache as cachingRepo, Lookup and mvsReqs.Required use it ----

Callers == {1, 2}

MaxRuns == 2

\* The keys: cachingRepo.Versions("") and Stat("v1.0.0") of one repository
\* (Latest and GoMod differ in the key's prefix only), and mvsReqs.Required
\* of one module.
ParKeys == {"versions:", "stat:v1.0.0", "a@v1.0.0"}

\* What a run of the underlying operation may give: the repository answers,
\* answers differently at another time, or fails.
ParResults == {"r1", "r2", "err"}

NoEntry == [made |-> FALSE, done |-> FALSE, result |-> "", holder |-> 0]

parRest == <<mvsVars, repoVars, qVars, fnVars, reqVars, sumVars, raceVars, importVars,
             discVars, scanVars, extraVars>>

\* cache.Do: the function runs when the entry is not done.
MustRun(e) == ~e.done

\* Versions, Stat, Latest, GoMod, Required: r.cache.Do(key, f); the entry of
\* the key is loaded, or stored when there is none.
ParCall(c) ==
    /\ cPc[c] = "idle"
    /\ \E k \in ParKeys :
        /\ cKey' = [cKey EXCEPT ![c] = k]
        /\ parEntry' = [parEntry EXCEPT ![k].made = TRUE]
    /\ cPc' = [cPc EXCEPT ![c] = "check"]
    /\ UNCHANGED <<parRuns, parSeen, cGot>>
    /\ UNCHANGED parRest

\* cache.Do: an entry that is done is returned as it is; else the caller
\* goes for the entry's lock.
ParCheck(c) ==
    /\ cPc[c] = "check"
    /\ cPc' = [cPc EXCEPT ![c] = IF parEntry[cKey[c]].done THEN "ret" ELSE "lock"]
    /\ UNCHANGED <<parEntry, parRuns, parSeen, cKey, cGot>>
    /\ UNCHANGED parRest

\* cache.Do: the caller waits until the entry's lock is free and takes it.
ParLock(c) ==
    /\ cPc[c] = "lock"
    /\ parEntry[cKey[c]].holder = 0
    /\ parEntry' = [parEntry EXCEPT ![cKey[c]].holder = c]
    /\ cPc' = [cPc EXCEPT ![c] = "run"]
    /\ UNCHANGED <<parRuns, parSeen, cKey, cGot>>
    /\ UNCHANGED parRest

\* The cached function giving only the result to the cache: an error reaches
\* its caller and leaves the entry not done.
ParRunDropErr(c) ==
    /\ cPc[c] = "run"
    /\ \E k \in {cKey[c]} :
        IF MustRun(parEntry[k])
        THEN /\ parRuns[k] < MaxRuns
             /\ \E res \in ParResults :
                 parEntry' = [parEntry EXCEPT ![k] =
                                 [made |-> TRUE, done |-> res # "err", result |-> res,
                                  holder |-> 0]]
             /\ parRuns' = [parRuns EXCEPT ![k] = @ + 1]
        ELSE /\ parEntry' = [parEntry EXCEPT ![k].holder = 0]
             /\ parRuns' = parRuns
    /\ cPc' = [cPc EXCEPT ![c] = "ret"]
    /\ UNCHANGED <<parSeen, cKey, cGot>>
    /\ UNCHANGED parRest

\* cache.Do under the lock: f runs unless another caller finished it in the
\* meantime; f locks r.mu, calls the underlying Repo (or r.required and the
\* exclusion loop) and gives the pair of the result and the error, which is
\* stored whichever it is; then the lock is released.
ParRun(c) ==
    /\ cPc[c] = "run"
    /\ \E k \in {cKey[c]} :
        IF MustRun(parEntry[k])
        THEN /\ parRuns[k] < MaxRuns
             /\ \E res \in ParResults :
                 parEntry' = [parEntry EXCEPT ![k] =
                                 [made |-> TRUE, done |-> TRUE, result |-> res,
                                  holder |-> 0]]
             /\ parRuns' = [parRuns EXCEPT ![k] = @ + 1]
        ELSE /\ parEntry' = [parEntry EXCEPT ![k].holder = 0]
             /\ parRuns' = parRuns
    /\ cPc' = [cPc EXCEPT ![c] = "ret"]
    /\ UNCHANGED <<parSeen, cKey, cGot>>
    /\ UNCHANGED parRest

\* The method returns what the entry holds: a copy of the list, info or
\* text, or the error.
ParReturn(c) ==
    /\ cPc[c] = "ret"
    /\ \E k \in {cKey[c]} :
        /\ parSeen' = [parSeen EXCEPT ![k] = @ \cup {parEntry[k].result}]
        /\ cGot' = [cGot EXCEPT ![c] = <<k, parEntry[k].result>>]
    /\ cPc' = [cPc EXCEPT ![c] = "idle"]
    /\ UNCHANGED <<parEntry, parRuns, cKey>>
    /\ UNCHANGED parRest

\* The caches as newCachingRepo and newReqs make them.
ParIdle ==
    /\ parEntry = [k \in ParKeys |-> NoEntry]
    /\ parRuns = [k \in ParKeys |-> 0]
    /\ parSeen = [k \in ParKeys |-> {}]
    /\ cPc = [c \in Callers |-> "idle"]
    /\ cKey = [c \in Callers |-> ""]
    /\ cGot = [c \in Callers |-> <<>>]

\* ---- loader.importDir (load.go) ----

\* The import paths of this part and their bytes; t is the target module,
\* fmt a package of the standard library.
ImportPaths == {"t/x", "fmt", "a", "a/b", "a/b/c", "ab/c", "c/d", "d"}

Chars ==
    [p \in ImportPaths \cup {"t", "ab", "c", "/x", "/", "."} |->
        CASE p = "t" -> <<"t">>
          [] p = "/x" -> <<"/", "x">>
          [] p = "/" -> <<"/">>
          [] p = "." -> <<".">>
          [] p = "t/x" -> <<"t", "/", "x">>
          [] p = "fmt" -> <<"f", "m", "t">>
          [] p = "a" -> <<"a">>
          [] p = "ab" -> <<"a", "b">>
          [] p = "a/b" -> <<"a", "/", "b">>
          [] p = "a/b/c" -> <<"a", "/", "b", "/", "c">>
          [] p = "ab/c" -> <<"a", "b", "/", "c">>
          [] p = "c" -> <<"c">>
          [] p = "c/d" -> <<"c", "/", "d">>
          [] p = "d" -> <<"d">>]

\* The modules a build list of this part is drawn from, in the order of
\* their paths.
ImportMods == <<MV("a", "v1.0.0"), MV("a/b", "v1.0.0"), MV("ab", "v1.0.0"),
                MV("c", "v1.0.0")>>

MaxImports == 2
MaxFetchFail == 1

\* A directory: its root, which is SrcMod/<path>@<version> for a module and
\* a named place otherwise, and the path below the root; NoDir is "".
Dir(root, sub) == [root |-> root, sub |-> sub]
Place(name) == MV(name, "")
NoDir == Dir(NoModule, <<>>)

\* path[len(mpath)+1:]
Below(path, mpath) == SubSeq(Chars[path], Len(Chars[mpath]) + 2, Len(Chars[path]))

\* importPathInModule that takes any path beginning with mpath.
importPathInModulePrefix(path, mpath) ==
    LET p == Chars[path]
        m == Chars[mpath]
    IN m = p \/ (Len(p) > Len(m) /\ SubSeq(p, 1, Len(m)) = m)

\* importPathInModule
importPathInModule(path, mpath) ==
    LET p == Chars[path]
        m == Chars[mpath]
    IN m = p \/ (Len(p) > Len(m) /\ p[Len(m) + 1] = "/" /\ SubSeq(p, 1, Len(m)) = m)

\* search.IsStandardImportPath: the first element of the path has no dot;
\* the module paths of this part stand for paths on a host, fmt does not.
IsStandardImportPath(path) == path = "fmt"

\* fetch: the directory of a module replaced by a local directory, else
\* what modfetch.Download of the module or of its replacement returns.
fetch(mod) ==
    LET r == Replacement(mod)
        m == IF r.Path # "" THEN r ELSE mod
    IN IF r.Path # "" /\ r.Version = "" THEN [dir |-> Dir(Place(r.Path), <<>>), err |-> ""]
       ELSE IF m \in fetchFail THEN [dir |-> NoDir, err |-> "download"]
       ELSE [dir |-> Dir(m, <<>>), err |-> ""]

\* The loop of importDir over buildList from index i, dir1 and mod1 being
\* the match found so far.
RECURSIVE importLoop(_, _, _, _)
importLoop(path, i, dir1, mod1) ==
    Only({IF i > Len(buildList)
          THEN IF d1 # NoDir
               THEN [dir |-> d1, mod |-> m1, missing |-> FALSE, err |-> ""]
               ELSE [dir |-> NoDir, mod |-> NoModule, missing |-> TRUE, err |-> ""]
          ELSE IF ~importPathInModule(path, buildList[i].Path)
          THEN importLoop(path, i + 1, d1, m1)
          ELSE IF fetch(buildList[i]).err # ""
          THEN [dir |-> NoDir, mod |-> NoModule, missing |-> FALSE,
                err |-> fetch(buildList[i]).err]
          ELSE IF d1 # NoDir
          THEN [dir |-> NoDir, mod |-> NoModule, missing |-> FALSE,
                err |-> "found in both"]
          ELSE importLoop(path, i + 1,
                          IF Len(Chars[path]) > Len(Chars[buildList[i].Path])
                          THEN Dir(fetch(buildList[i]).dir.root,
                                   Below(path, buildList[i].Path))
                          ELSE fetch(buildList[i]).dir,
                          buildList[i])
          : d1 \in {dir1}, m1 \in {mod1}})

\* importDir: [dir, mod, missing, err]; mod is what ld.pkgmod[path] is set
\* to and missing says that the path was appended to ld.missing.
importDir(path) ==
    IF importPathInModule(path, Target.Path)
    THEN [dir |-> Dir(Place("ModRoot"), IF Len(Chars[path]) > Len(Chars[Target.Path])
                                 THEN Below(path, Target.Path) ELSE <<>>),
          mod |-> Target, missing |-> FALSE, err |-> ""]
    ELSE IF IsStandardImportPath(path) /\ path \in gorootDirs
    THEN [dir |-> Dir(Place("GOROOT/src"), Chars[path]), mod |-> NoModule, missing |-> FALSE,
          err |-> ""]
    ELSE IF BuildGetmode = "vendor"
    THEN [dir |-> Dir(Place("ModRoot/vendor"), Chars[path]), mod |-> NoModule,
          missing |-> FALSE, err |-> ""]
    ELSE importLoop(path, 1, NoDir, NoModule)

importRest == <<mvsVars, repoVars, qVars, fnVars, reqVars, sumVars, raceVars, parVars,
                discVars, scanVars, extraVars>>

\* importPkg up to the return of ld.importDir(realPath), for a path not yet
\* imported.
ImportDir ==
    /\ Cardinality(ldImported) < MaxImports
    /\ \E path \in ImportPaths \ ldImported : \E r \in {importDir(path)} :
        /\ ldImported' = ldImported \cup {path}
        /\ ldPkgmod' = IF r.mod # NoModule THEN [ldPkgmod EXCEPT ![path] = r.mod]
                       ELSE ldPkgmod
        /\ ldMissing' = IF r.missing THEN Append(ldMissing, path) ELSE ldMissing
        /\ ldPath' = path
        /\ ldDir' = r.dir
        /\ ldErr' = r.err
    /\ UNCHANGED <<BuildGetmode, gorootDirs, fetchFail>>
    /\ UNCHANGED importRest

\* newLoader, with nothing fetched or configured.
ImportIdle ==
    /\ BuildGetmode = "" /\ gorootDirs = {} /\ fetchFail = {}
    /\ ldImported = {} /\ ldPkgmod = [p \in ImportPaths |-> NoModule]
    /\ ldMissing = <<>> /\ ldPath = "" /\ ldDir = NoDir /\ ldErr = ""

\* ---- modfetch.Import (repo.go) ----

MaxTries == 4

\* The paths Import is called with: what a source file imports and the
\* loader found in no module of the build list.
DiscoverPaths == {"a/b/c", "a/b", "d", "/x"}

\* path.Dir of a path without doubled or trailing slashes: the path up to
\* its last slash, "/" when that is its first byte, "." when it has none.
PathDir(path) ==
    LET cs == Chars[path]
        slashes == {i \in 1..Len(cs) : cs[i] = "/"}
        last == CHOOSE i \in slashes : \A j \in slashes : j <= i
        dir == IF slashes = {} THEN <<".">>
               ELSE IF last = 1 THEN <<"/">>
               ELSE SubSeq(cs, 1, last - 1)
    IN CHOOSE q \in DOMAIN Chars : Chars[q] = dir

ImportOk(path, info) == [path |-> path, info |-> info, err |-> ""]
ImportErr(e) == [path |-> "", info |-> RevInfo(""), err |-> e]

\* try of Import: Lookup, Query for "latest", and r.GoMod of its version.
try(path) ==
    IF Lookup(path) # "" THEN ImportErr(Lookup(path))
    ELSE IF Query(path, "latest").err # "" THEN ImportErr(Query(path, "latest").err)
    ELSE IF path \in gomodFail THEN ImportErr("gomod")
    ELSE ImportOk(path, Query(path, "latest").info)

discRest == <<mvsVars, repoVars, qVars, fnVars, reqVars, sumVars, raceVars, parVars,
              importVars, scanVars, extraVars>>

\* findMissing calls modfetch.Import(m.path, allowed).
ImportStart ==
    /\ impPc = "idle"
    /\ \E path \in DiscoverPaths :
        /\ impPath' = path
        /\ impCur' = path
    /\ impTried' = <<>>
    /\ impFirstErr' = ""
    /\ impOut' = ImportErr("")
    /\ impPc' = "loop"
    /\ UNCHANGED gomodFail
    /\ UNCHANGED discRest

\* One turn of the loop of Import: try(path); a success is returned, the
\* first error is kept, and path becomes path.Dir(path) unless that is ".".
ImportTry ==
    /\ impPc = "loop"
    /\ Len(impTried) < MaxTries
    /\ impTried' = Append(impTried, impCur)
    /\ \E r \in {try(impCur)} : \E p \in {PathDir(impCur)} :
        \E first \in {IF impFirstErr = "" THEN r.err ELSE impFirstErr} :
            IF r.err = ""
            THEN /\ impOut' = r /\ impPc' = "done"
                 /\ UNCHANGED <<impCur, impFirstErr>>
            ELSE /\ impFirstErr' = first
                 /\ IF p = "."
                    THEN impOut' = ImportErr(first) /\ impPc' = "done" /\ impCur' = impCur
                    ELSE impOut' = impOut /\ impPc' = impPc /\ impCur' = p
    /\ UNCHANGED <<gomodFail, impPath>>
    /\ UNCHANGED discRest

\* Import is not running.
DiscIdle ==
    /\ gomodFail = {} /\ impPath = "" /\ impCur = "" /\ impTried = <<>>
    /\ impFirstErr = "" /\ impOut = ImportErr("") /\ impPc = "idle"

\* ---- scanDir (load.go) ----

MaxScan == 3

\* The import paths a scanned directory may hold.
ScanPkgs == {"appengine", "appengine/datastore", "appengine_internal", "appengines", "a"}

\* pkg == "appengine" and strings.HasPrefix(pkg, "appengine/"), and the same
\* for appengine_internal.
IsAppengine(pkg) == pkg \in {"appengine", "appengine/datastore"}
IsAppengineInternal(pkg) == pkg = "appengine_internal"

\* filter of scanDir: the kept entries are moved to the front of x, w
\* counting them, and x is returned.
RECURSIVE filterLoop(_, _, _)
filterLoop(x, i, w) ==
    Only({IF i > Len(y) THEN y
          ELSE IF ~IsAppengine(y[i]) /\ ~IsAppengineInternal(y[i])
          THEN filterLoop([y EXCEPT ![w] = y[i]], i + 1, w + 1)
          ELSE filterLoop(y, i + 1, w)
          : y \in {x}})

filter(x) == filterLoop(x, 1, 1)

scanRest == <<mvsVars, repoVars, qVars, fnVars, reqVars, sumVars, raceVars, parVars,
              importVars, discVars, extraVars>>

\* scanDir: imports.ScanDir, then filter over both lists.
ScanDir ==
    /\ scanOut = <<>>
    /\ scanOut' = [imports |-> filter(scanned.imports),
                   testImports |-> filter(scanned.testImports)]
    /\ UNCHANGED scanned
    /\ UNCHANGED scanRest

\* The next directory is scanned.
ScanNext ==
    /\ scanOut # <<>>
    /\ scanOut' = <<>>
    /\ \E l \in SeqsOver(ScanPkgs, MaxScan) : \E t \in SeqsOver(ScanPkgs, 1) :
        scanned' = [imports |-> l, testImports |-> t]
    /\ UNCHANGED scanRest

\* No directory has been scanned.
ScanIdle ==
    /\ scanned = [imports |-> <<>>, testImports |-> <<>>]
    /\ scanOut = <<>>

\* ---- vgo mod -require, -droprequire, -exclude, ... (mod.go, modfile) ----

MaxEdits == 3

\* parsePathVersion: the text before and after the "@", spaces trimmed.
parsePathVersion(arg) ==
    CASE arg = "x@v1.0.0" -> MV("x", "v1.0.0")
      [] arg = "x @ v1.0.0" -> MV("x", "v1.0.0")
      [] arg = "x@v1.1.0" -> MV("x", "v1.1.0")
      [] arg = "y@v1.0.0" -> MV("y", "v1.0.0")

\* The two sides of "=>" in the argument of the replace flag, spaces trimmed.
replaceSides(arg) ==
    CASE arg = "x@v1.0.0=>y@v1.0.0" -> <<"x@v1.0.0", "y@v1.0.0">>
      [] arg = "x@v1.0.0 => ../z" -> <<"x@v1.0.0", "../z">>

\* The flags a command line may hold and their arguments.
EditFlags ==
    {<<"require", "x@v1.0.0">>, <<"require", "x@v1.1.0">>, <<"droprequire", "x">>,
     <<"exclude", "x@v1.0.0">>, <<"exclude", "x @ v1.0.0">>,
     <<"dropexclude", "x@v1.0.0">>,
     <<"replace", "x@v1.0.0=>y@v1.0.0">>, <<"replace", "x@v1.0.0 => ../z">>,
     <<"dropreplace", "x@v1.0.0">>}

\* flagAddRequire .. flagDropReplace: the edit a flag appends to modEdits,
\* its argument parsed when the flag is set.
flagEdit(name, arg) ==
    CASE name = "require" -> [op |-> name, mod |-> parsePathVersion(arg), new |-> NoModule]
      [] name = "droprequire" -> [op |-> name, mod |-> MV(arg, ""), new |-> NoModule]
      [] name \in {"exclude", "dropexclude", "dropreplace"} ->
            [op |-> name, mod |-> parsePathVersion(arg), new |-> NoModule]
      [] name = "replace" ->
            LET sides == replaceSides(arg)
            IN [op |-> name, mod |-> parsePathVersion(sides[1]),
                new |-> IF sides[2] = "../z" THEN MV("../z", "")
                        ELSE parsePathVersion(sides[2])]

\* The least index of list whose entry satisfies hit, 0 when there is none.
FirstHit(list, hit(_)) ==
    IF \E i \in DOMAIN list : hit(list[i])
    THEN CHOOSE i \in DOMAIN list : hit(list[i]) /\ \A j \in 1..(i - 1) : ~hit(list[j])
    ELSE 0

\* The list with entry i set to e and every later entry that satisfies hit
\* removed.
Override(list, i, e, hit(_)) ==
    LET n == Len(list)
        tail == SelectSeq(SubSeq(list, i + 1, n), LAMBDA r : ~hit(r))
    IN SubSeq(list, 1, i - 1) \o <<e>> \o tail

\* File.AddRequire: the first requirement on path gets the version and the
\* later ones are removed; with none, a new requirement is appended.
AddRequire(list, mod) ==
    LET i == FirstHit(list, LAMBDA r : r.Path = mod.Path)
    IN IF i = 0 THEN Append(list, mod)
       ELSE Override(list, i, mod, LAMBDA r : r.Path = mod.Path)

\* File.DropRequire
DropRequire(list, path) == SelectSeq(list, LAMBDA r : r.Path # path)

\* File.AddExclude: nothing when the exclusion is there already.
AddExclude(list, mod) ==
    IF \E i \in DOMAIN list : list[i] = mod THEN list ELSE Append(list, mod)

\* File.DropExclude
DropExclude(list, mod) == SelectSeq(list, LAMBDA r : r # mod)

\* File.AddReplace: the first replacement of old gets the new module and the
\* later ones are removed; with none, a new replacement is appended.
AddReplace(list, old, new) ==
    LET i == FirstHit(list, LAMBDA r : r.Old = old)
        e == [Old |-> old, New |-> new]
    IN IF i = 0 THEN Append(list, e)
       ELSE Override(list, i, e, LAMBDA r : r.Old = old)

\* File.DropReplace
DropReplace(list, old) == SelectSeq(list, LAMBDA r : r.Old # old)

\* One edit of modEdits applied to the manifest f = [req, excl, repl].
applyEdit(f, e) ==
    CASE e.op = "require" -> [f EXCEPT !.req = AddRequire(f.req, e.mod)]
      [] e.op = "droprequire" -> [f EXCEPT !.req = DropRequire(f.req, e.mod.Path)]
      [] e.op = "exclude" -> [f EXCEPT !.excl = AddExclude(f.excl, e.mod)]
      [] e.op = "dropexclude" -> [f EXCEPT !.excl = DropExclude(f.excl, e.mod)]
      [] e.op = "replace" -> [f EXCEPT !.repl = AddReplace(f.repl, e.mod, e.new)]
      [] e.op = "dropreplace" -> [f EXCEPT !.repl = DropReplace(f.repl, e.mod)]

\* The same loop from the last flag to the first.
RECURSIVE applyEditsBackwards(_, _, _)
applyEditsBackwards(f, edits, i) ==
    Only({IF i > Len(edits) THEN g
          ELSE applyEditsBackwards(applyEdit(g, edits[Len(edits) + 1 - i]), edits, i + 1)
          : g \in {f}})

\* for _, edit := range modEdits { edit(modFile) }
RECURSIVE applyEdits(_, _, _)
applyEdits(f, edits, i) ==
    Only({IF i > Len(edits) THEN g
          ELSE applyEdits(applyEdit(g, edits[i]), edits, i + 1)
          : g \in {f}})

editRest == <<excluded, buildList, goMod, repoTags, fatal, prevList, savedList, diskFrom,
              baseList, upgradeList, upgradeArg, downgradeArg,
              repoVars, qVars, fnVars, reqVars, sumVars, raceVars, parVars,
              importVars, discVars, scanVars, iterVars, upVars, convVars, findVars>>

\* flagFunc.Set: an editing flag is read off the command line.
FlagSet ==
    /\ lastOp = "start"
    /\ Len(modEdits) < MaxEdits
    /\ \E fl \in EditFlags : modEdits' = Append(modEdits, flagEdit(fl[1], fl[2]))
    /\ UNCHANGED <<modRequire, modReplace, modExclude, lastOp, prevRequire>>
    /\ UNCHANGED editRest

\* runMod with editing flags only: the edits are applied in order and go.mod
\* is written back as it is then, WriteGoMod having no build list to write
\* requirements from.
RunMod ==
    /\ lastOp = "start"
    /\ modEdits # <<>>
    /\ lastOp' = "mod"
    /\ prevRequire' = modRequire
    /\ \E g \in {applyEdits([req |-> modRequire, excl |-> modExclude, repl |-> modReplace],
                             modEdits, 1)} :
        /\ modRequire' = g.req
        /\ modExclude' = g.excl
        /\ modReplace' = g.repl
    /\ UNCHANGED modEdits
    /\ UNCHANGED editRest

\* No editing flag was given.
EditIdle == modExclude = <<>> /\ modEdits = <<>>

\* iterate has not been called.
IterIdle ==
    /\ found = {} /\ addLog = <<>> /\ itPc = "start" /\ itIdx = 0 /\ itErr = FALSE
    /\ srcImports = <<>>

\* Upgrade has not been called.
UpIdle == tagTime = <<>> /\ upArg = NoModule /\ upOut = [mod |-> NoModule, err |-> ""]

ConvWorkers == 2

\* ConvertLegacyConfig has not been called.
ConvIdle ==
    /\ legacy = <<>> /\ workItems = {} /\ need = <<>> /\ mu = 0
    /\ kPc = [w \in 1..ConvWorkers |-> "idle"]
    /\ kItem = [w \in 1..ConvWorkers |-> NoModule]
    /\ kInfo = [w \in 1..ConvWorkers |-> ""]
    /\ convPc = "start"

\* A directory with no .go file, no Godeps.json, no vendor.json and no
\* .git/config.
NoHints == [top |-> "", sub |-> "", godeps |-> "", vendor |-> "", git |-> ""]

\* FindModulePath has not been called.
FindIdle ==
    /\ GOPATH = <<>> /\ srcTree = NoHints /\ fmDir = <<>>
    /\ fmOut = [path |-> "", err |-> ""]

ExtraIdle == EditIdle /\ IterIdle /\ UpIdle /\ ConvIdle /\ FindIdle

RestIdle == RaceIdle /\ ParIdle /\ ImportIdle /\ DiscIdle /\ ScanIdle /\ ExtraIdle

\* No process has run: nothing in memory, nothing in progress.
LedgerFresh ==
    /\ goSum = <<>> /\ goSumNil = TRUE /\ useGoSum = FALSE /\ modverify = FALSE
    /\ sumFatal = ""
    /\ chkKey = NoModule /\ chkHash = "" /\ chkBefore = <<>> /\ chkUsed = FALSE
    /\ tmpfile = FALSE /\ dlPc = "idle" /\ dlHash = "" /\ dlErr = ""
    /\ dlFresh = FALSE /\ dlChecked = FALSE

SumIdle ==
    /\ GoSumFile = "" /\ sumFile = NoFile /\ verifyFile = NoFile
    /\ repoZip = [err |-> "zip", prefixOk |-> FALSE, hash |-> ""]
    /\ zipCache = {} /\ hashCache = [m \in {DlMod} |-> ""] /\ dirCache = {}
    /\ zipSum = [m \in {DlMod} |-> ""] /\ dirSum = [m \in {DlMod} |-> ""]
    /\ LedgerFresh

----------------------------------------------------------------------------
(* Package mvs: BuildList, Req and Upgrade over the Reqs collaborator.     *)
(* rootRes stands for reqs.Required(target): mvs.Upgrade overrides it.     *)
(* The walks carry their state from step to step; Only({.. : s \in {st}})  *)
(* reads the state of a step once.                                         *)

ReqsOf(target, rootRes, m) == IF m = target THEN rootRes ELSE Required(m)

\* One pass over the requirements of the module taken from the work queue:
\* every requirement not seen yet joins the queue, and the maximum version
\* demanded of its path is remembered.
RECURSIVE noteReqs(_, _, _)
noteReqs(list, i, st) ==
    Only({IF i > Len(l) THEN s
          ELSE IF l[i] \in s.seen THEN noteReqs(l, i + 1, s)
          ELSE noteReqs(l, i + 1,
                   [seen |-> s.seen \cup {l[i]},
                    queue |-> Append(s.queue, l[i]),
                    min |-> [p \in DOMAIN s.min \cup {l[i].Path} |->
                                IF p # l[i].Path THEN s.min[p]
                                ELSE IF p \in DOMAIN s.min
                                THEN Max(s.min[p], l[i].Version)
                                ELSE l[i].Version],
                    err |-> s.err])
          : l \in {list}, s \in {st}})

\* The breadth-first traversal of the requirement graph from target.
RECURSIVE traverse(_, _, _)
traverse(target, rootRes, st) ==
    Only({IF s.queue = <<>> THEN s
          ELSE IF r.err # ""
          THEN traverse(target, root,
                   [s EXCEPT !.queue = Tail(@), !.err = IF @ = "" THEN r.err ELSE @])
          ELSE traverse(target, root, noteReqs(r.list, 1, [s EXCEPT !.queue = Tail(@)]))
          : s \in {st}, root \in {rootRes},
            r \in {IF st.queue = <<>> THEN rootRes
                   ELSE ReqsOf(target, rootRes, Head(st.queue))}})

\* The module paths of S in byte order.
RECURSIVE SortPaths(_)
SortPaths(S) ==
    IF S = {} THEN <<>>
    ELSE Only({<<p>> \o SortPaths(S \ {p})
               : p \in {q \in S : \A r \in S : PathRank[q] <= PathRank[r]}})

\* mvs.BuildList: head target, then the maximum per other path, sorted by path.
BuildListOf(target, rootRes) ==
    Only({IF st.err # "" THEN [list |-> <<>>, err |-> st.err]
          ELSE Only({[list |-> <<target>> \o
                               [i \in 1..Len(paths) |-> MV(paths[i], st.min[paths[i]])],
                      err |-> ""]
                     : paths \in {SortPaths(DOMAIN st.min \ {target.Path})}})
          : st \in {traverse(target, rootRes,
                        [queue |-> <<target>>, seen |-> {target},
                         min |-> [p \in {target.Path} |-> target.Version],
                         err |-> ""])}})

\* mvs.Req, first walk: the postorder of the requirement graph below list.
RECURSIVE postWalk(_, _)
RECURSIVE postWalkList(_, _, _)
postWalk(m, st) ==
    Only({IF m \in s.seen \/ s.err # "" THEN s
          ELSE Only({IF r.err # "" THEN [s EXCEPT !.err = r.err]
                     ELSE Only({IF s1.err # "" THEN s1
                                ELSE [s1 EXCEPT !.post = Append(@, m)]
                                : s1 \in {postWalkList(r.list, 1,
                                              [s EXCEPT !.seen = @ \cup {m}])}})
                     : r \in {Required(m)}})
          : s \in {st}})
postWalkList(list, i, st) ==
    Only({IF i > Len(l) \/ s.err # "" THEN s
          ELSE postWalkList(l, i + 1, postWalk(l[i], s))
          : l \in {list}, s \in {st}})

\* mvs.Req, second walk: everything m implies is marked in have.
RECURSIVE haveWalk(_, _, _)
RECURSIVE haveWalkList(_, _, _, _)
haveWalk(target, m, have) ==
    Only({IF m.Path \in DOMAIN h /\ Max(m.Version, h[m.Path]) = h[m.Path]
          THEN h
          ELSE haveWalkList(target,
                            IF m = target THEN <<>> ELSE Required(m).list, 1,
                            [p \in DOMAIN h \cup {m.Path} |->
                                IF p = m.Path THEN m.Version ELSE h[p]])
          : h \in {have}})
haveWalkList(target, list, i, have) ==
    Only({IF i > Len(l) THEN h
          ELSE haveWalkList(target, l, i + 1, haveWalk(target, l[i], h))
          : l \in {list}, h \in {have}})

\* mvs.Req, the selection in reverse postorder: a module of list that nothing
\* selected so far implies is kept.
RECURSIVE selectMin(_, _, _, _, _, _)
selectMin(target, post, i, max, have, min) ==
    Only({IF i < 1 THEN mn
          ELSE IF po[i].Path \notin DOMAIN mx \/ mx[po[i].Path] # po[i].Version
          THEN selectMin(target, po, i - 1, mx, h, mn)
          ELSE IF po[i].Path \in DOMAIN h /\ h[po[i].Path] = po[i].Version
          THEN selectMin(target, po, i - 1, mx, h, mn)
          ELSE selectMin(target, po, i - 1, mx, haveWalk(target, po[i], h),
                         mn \cup {po[i]})
          : po \in {post}, mx \in {max}, h \in {have}, mn \in {min}})

\* mvs.Req: the minimal requirement list of target that yields list.
ReqOf(target, list) ==
    Only({IF st.err # "" THEN [list |-> <<>>, err |-> st.err]
          ELSE Only({[list |-> [i \in 1..Len(SortPaths({m.Path : m \in min})) |->
                                   CHOOSE m \in min :
                                       m.Path = SortPaths({n.Path : n \in min})[i]],
                      err |-> ""]
                     : min \in {selectMin(target, st.post, Len(st.post),
                                    [p \in {list[i].Path : i \in 1..Len(list)} |->
                                        (CHOOSE m \in Range(list) : m.Path = p).Version],
                                    <<>>, {})}})
          : st \in {postWalkList(list, 1, [seen |-> {target}, post |-> <<>>, err |-> ""])}})

\* mvs.Upgrade: the build list of target with upgrade added to its requirements.
UpgradeOf(target, upgrade) ==
    Only({IF r.err # "" THEN [list |-> <<>>, err |-> r.err]
          ELSE BuildListOf(target, [list |-> r.list \o upgrade, err |-> ""])
          : r \in {Required(target)}})

\* Every module version the requirements of S lead to.
RECURSIVE closure(_)
closure(S) ==
    Only({IF S1 = S THEN S1 ELSE closure(S1)
          : S1 \in {S \cup UNION {Range(Required(m).list) : m \in S \ {Target}}}})

\* mvs.Downgrade: the cap per path, from the current requirements and then
\* from the downgrade list.
RECURSIVE capOf(_, _, _, _)
capOf(list, i, down, max) ==
    Only({IF i > Len(list) + Len(down) THEN mx
          ELSE LET fromList == i <= Len(list)
                   m == IF fromList THEN list[i] ELSE down[i - Len(list)]
                   set == \/ fromList
                          \/ m.Path \notin DOMAIN mx
                          \/ Max(mx[m.Path], m.Version) # m.Version
               IN capOf(list, i + 1, down,
                        IF set THEN [p \in DOMAIN mx \cup {m.Path} |->
                                        IF p = m.Path THEN m.Version ELSE mx[p]]
                        ELSE mx)
          : mx \in {max}})

\* A module version above its cap, or requiring one (directly or not).
overCap(m, max) ==
    \E n \in closure({m}) :
        n.Path \in DOMAIN max /\ Max(n.Version, max[n.Path]) # max[n.Path]

\* The requirement r reduced to its previous versions until nothing it needs
\* is above its cap; "none" when no version is left.
RECURSIVE reduce(_, _)
reduce(r, max) ==
    IF ~overCap(r, max) THEN [mod |-> r, err |-> ""]
    ELSE Only({IF p.err # "" THEN p
               ELSE IF p.mod.Version = "none" THEN p
               ELSE reduce(p.mod, max)
               : p \in {Previous(r)}})

RECURSIVE reduceAll(_, _, _, _)
reduceAll(list, i, max, out) ==
    IF i > Len(list) THEN [list |-> out, err |-> ""]
    ELSE Only({IF r.err # "" THEN [list |-> <<>>, err |-> r.err]
               ELSE IF r.mod.Version = "none" THEN reduceAll(list, i + 1, max, o)
               ELSE reduceAll(list, i + 1, max, Append(o, r.mod))
               : r \in {reduce(list[i], max)}, o \in {out}})

\* mvs.Downgrade
DowngradeOf(target, rootRes, down) ==
    IF rootRes.err # "" THEN [list |-> <<>>, err |-> rootRes.err]
    ELSE Only({reduceAll(l, 1, mx, <<target>>)
               : l \in {rootRes.list}, mx \in {capOf(rootRes.list, 1, down, <<>>)}})

----------------------------------------------------------------------------
(* The requirement graphs the loader is run on. *)

MaxReqs == 1
MaxExcluded == 1
MaxGetArgs == 1

\* The requirements a published go.mod may declare, per module version.
Candidates(m) ==
    CASE m = MV("a", "v1.0.0") -> {MV("b", "v1.0.0"), MV("c", "v1.0.0")}
      [] m = MV("a", "v1.1.0") -> {MV("b", "v1.1.0"), MV("c", "v1.1.0")}
      [] m = MV("b", "v1.0.0") -> {MV("c", "v1.0.0")}
      [] m = MV("b", "v1.1.0") -> {MV("c", "v1.1.0"), MV("a", "v1.1.0")}
      [] m = MV("c", "v1.1.0") -> {MV(TargetPath, "v1.0.0")}
      [] OTHER -> {}

\* The tagged versions of every repository, ascending (Repo.Versions).
PublishedTags ==
    [p \in AllPaths |->
        CASE p = "a" -> <<"v1.0.0", "v1.1.0", "v1.2.0">>
          [] p = "b" -> <<"v1.0.0", "v1.1.0">>
          [] p = "c" -> <<"v1.0.0", "v1.1.0">>
          [] p = "t" -> <<"v1.0.0">>]

Nodes == {MV(p, PublishedTags[p][i]) : <<p, i>> \in
             {<<q, j>> \in AllPaths \X (1..3) : j <= Len(PublishedTags[q])}}

\* A list of module versions in path order, then version order.
RECURSIVE SortMods(_)
SortMods(S) ==
    IF S = {} THEN <<>>
    ELSE Only({<<m>> \o SortMods(S \ {m})
               : m \in {CHOOSE x \in S : \A y \in S :
                      \/ PathRank[x.Path] < PathRank[y.Path]
                      \/ /\ x.Path = y.Path
                         /\ Compare(x.Version, y.Version) <= 0}})

ReqLists(m) ==
    {SortMods(S) : S \in {T \in SUBSET Candidates(m) : Cardinality(T) <= MaxReqs}}

\* The root manifest requires at most one version of a path.
RootRequires ==
    {SortMods(S) : S \in {T \in SUBSET {MV("a", "v1.0.0"), MV("a", "v1.1.0"),
                                         MV("b", "v1.0.0"), MV("b", "v1.1.0")} :
                              \A x, y \in T : x.Path = y.Path => x = y}}

Excludes ==
    {S \in SUBSET {MV("a", "v1.0.0"), MV("a", "v1.1.0"), MV("b", "v1.1.0")} :
        Cardinality(S) <= MaxExcluded}

FnIdle ==
    /\ argA = "" /\ argB = "" /\ outA = "" /\ outB = ""

QueryIdle ==
    /\ qOut = InfoErr("") /\ qExpr = <<>>

ReqIdle ==
    /\ reqArg = NoModule /\ reqOut = [list |-> <<>>, err |-> ""]

\* In the published repositories master is the last tag and the commit
\* f488df80bcdb has no tag.
PublishedRevs ==
    [p \in AllPaths |->
        [r \in {"master", "f488df80bcdb"} |->
            IF r = "master" THEN PublishedTags[p][Len(PublishedTags[p])]
            ELSE PseudoVersion]]

InitMVS ==
    /\ \E ra1 \in ReqLists(MV("a", "v1.0.0")), ra2 \in ReqLists(MV("a", "v1.1.0")),
          rb1 \in ReqLists(MV("b", "v1.0.0")), rb2 \in ReqLists(MV("b", "v1.1.0")),
          rc2 \in ReqLists(MV("c", "v1.1.0")) :
          goMod = [m \in Nodes |->
                      CASE m = MV("a", "v1.0.0") -> ra1
                        [] m = MV("a", "v1.1.0") -> ra2
                        [] m = MV("b", "v1.0.0") -> rb1
                        [] m = MV("b", "v1.1.0") -> rb2
                        [] m = MV("c", "v1.1.0") -> rc2
                        [] OTHER -> <<>>]
    /\ modRequire \in RootRequires
    /\ excluded \in Excludes
    /\ modReplace = <<>>
    /\ repoTags = PublishedTags
    /\ buildList = <<>>
    /\ fatal = ""
    /\ lastOp = "start"
    /\ prevList = <<>>
    /\ prevRequire = modRequire
    /\ savedList = <<>>
    /\ diskFrom = <<>>
    /\ baseList = <<>>
    /\ upgradeList = <<>>
    /\ upgradeArg = <<>>
    /\ downgradeArg = <<>>
    /\ repoRevs = PublishedRevs
    /\ infoCache = {}
    /\ QueryIdle
    /\ FnIdle
    /\ ReqIdle
    /\ SumIdle /\ RestIdle

\* writeGoMod (init.go): with a build list, the manifest's requirements become
\* mvs.Req of it; the result is [list, err].
writeGoMod(list) ==
    IF list # <<>> THEN ReqOf(Target, list)
    ELSE [list |-> modRequire, err |-> ""]

\* LoadBuildList (load.go): iterate with no imports to walk, then WriteGoMod.
LoadBuildList ==
    /\ fatal = ""
    /\ lastOp \in {"start", "LoadBuildList"}
    /\ lastOp' = "LoadBuildList"
    /\ prevList' = buildList
    /\ prevRequire' = modRequire
    /\ \E bl \in {BuildListOf(Target, Required(Target))} :
       \E min \in {IF bl.err # "" THEN bl ELSE writeGoMod(bl.list)} :
          IF bl.err # ""
          THEN /\ fatal' = bl.err
               /\ UNCHANGED <<buildList, modRequire, savedList>>
          ELSE IF min.err # ""
          THEN /\ fatal' = min.err
               /\ buildList' = bl.list
               /\ UNCHANGED <<modRequire, savedList>>
          ELSE /\ buildList' = bl.list
               /\ modRequire' = min.list
               /\ savedList' = bl.list
               /\ UNCHANGED fatal
    /\ UNCHANGED <<excluded, modReplace, goMod, repoTags, diskFrom, baseList,
                   upgradeList, upgradeArg, downgradeArg>>
    /\ UNCHANGED loaderRest

\* The next invocation of the command: the globals of the process are fresh,
\* go.mod is as the last process left it.
NewProcess ==
    /\ lastOp # "start"
    /\ lastOp' = "start"
    /\ buildList' = <<>>
    /\ fatal' = ""
    /\ prevList' = <<>>
    /\ prevRequire' = modRequire
    /\ diskFrom' = savedList
    /\ baseList' = <<>>
    /\ upgradeList' = <<>>
    /\ upgradeArg' = <<>>
    /\ downgradeArg' = <<>>
    /\ UNCHANGED <<modRequire, excluded, modReplace, goMod, repoTags, savedList>>
    /\ UNCHANGED loaderRest

\* The arguments of get: path@version, or a bare path for path@latest.
GetArgChoices ==
    {<<"a", "latest">>, <<"a", "v1.0.0">>, <<"b", "v1.0.0">>, <<"a", "none">>}

\* The loop over the arguments of runGet: "none" is a downgrade, anything else
\* is resolved by Query and, unless Query fails, becomes an upgrade.
RECURSIVE resolveArgs(_, _, _, _)
resolveArgs(args, i, up, down) ==
    IF i > Len(args) THEN [up |-> up, down |-> down]
    ELSE LET path == args[i][1]
             vers == args[i][2]
             q == Query(path, vers)
         IN IF vers = "none"
            THEN resolveArgs(args, i + 1, up, Append(down, MV(path, "")))
            ELSE IF q.err # "" THEN resolveArgs(args, i + 1, up, down)
            ELSE resolveArgs(args, i + 1, Append(up, MV(path, q.info.Version)), down)

\* runGet up to "Downgrade anything that went too far": the arguments are
\* resolved, mvs.Upgrade gives the build list, LoadBuildList rebuilds it and
\* writes go.mod.
GetUpgrade ==
    /\ fatal = ""
    /\ lastOp = "start"
    /\ \E args \in SeqsOver(GetArgChoices, MaxGetArgs) \ {<<>>} :
        \E a \in {resolveArgs(args, 1, <<>>, <<>>)},
           base \in {BuildListOf(Target, Required(Target))} :
        \E ul \in {UpgradeOf(Target, a.up)} :
        \E bl \in {IF ul.err # "" THEN ul
                   ELSE BuildListOf(Target,
                            substitute(targetReqs(ul.list, <<>>), 1, <<>>))} :
        \E min \in {IF bl.err # "" THEN bl ELSE writeGoMod(bl.list)} :
        \E err \in {IF ul.err # "" THEN ul.err
                    ELSE IF bl.err # "" THEN bl.err ELSE min.err} :
           /\ upgradeArg' = a.up
           /\ downgradeArg' = a.down
           /\ baseList' = base.list
           /\ upgradeList' = ul.list
           /\ fatal' = err
           /\ buildList' = IF ul.err # "" THEN buildList
                           ELSE IF bl.err # "" THEN ul.list ELSE bl.list
           /\ modRequire' = IF err = "" THEN min.list ELSE modRequire
           /\ savedList' = IF err = "" THEN bl.list ELSE savedList
    /\ lastOp' = "runGet:upgrade"
    /\ prevList' = buildList
    /\ prevRequire' = modRequire
    /\ UNCHANGED <<excluded, modReplace, goMod, repoTags, diskFrom>>
    /\ UNCHANGED loaderRest

\* The version the build list selects for path, "" when it has none.
versionIn(list, path) ==
    IF \E i \in 1..Len(list) : list[i].Path = path
    THEN list[CHOOSE i \in 1..Len(list) : list[i].Path = path].Version
    ELSE ""

\* The rest of runGet: every upgrade the build list overshot is downgraded
\* with mvs.Downgrade, and go.mod is written.
GetDowngrade ==
    /\ fatal = ""
    /\ lastOp = "runGet:upgrade"
    /\ LET tooFar(m) == Compare(m.Version, versionIn(buildList, m.Path)) < 0 IN
       \E down \in {downgradeArg \o SelectSeq(upgradeArg, tooFar)} :
       \E dl \in {IF down # <<>>
                  THEN DowngradeOf(Target, Required(Target), down)
                  ELSE [list |-> buildList, err |-> ""]} :
       \E min \in {IF dl.err # "" THEN dl ELSE writeGoMod(dl.list)} :
       \E err \in {IF dl.err # "" THEN dl.err ELSE min.err} :
          /\ fatal' = err
          /\ buildList' = IF dl.err # "" THEN buildList ELSE dl.list
          /\ modRequire' = IF err = "" THEN min.list ELSE modRequire
          /\ savedList' = IF down # <<>> THEN <<>> ELSE savedList
    /\ lastOp' = "runGet"
    /\ prevList' = buildList
    /\ prevRequire' = modRequire
    /\ UNCHANGED <<excluded, modReplace, goMod, repoTags, diskFrom, baseList,
                   upgradeList, upgradeArg, downgradeArg>>
    /\ UNCHANGED loaderRest

NextMVS == LoadBuildList \/ NewProcess \/ GetUpgrade \/ GetDowngrade

SpecMVS == InitMVS /\ [][NextMVS]_vars

----------------------------------------------------------------------------
(* The ledger and the download cache, one process after another.           *)

\* The loader's state while another package is exercised.
LoaderIdle ==
    /\ modRequire = <<>> /\ modReplace = <<>> /\ buildList = <<>>
    /\ fatal = "" /\ lastOp = "start"
    /\ prevList = <<>> /\ prevRequire = <<>> /\ savedList = <<>> /\ diskFrom = <<>>
    /\ baseList = <<>> /\ upgradeList = <<>> /\ upgradeArg = <<>> /\ downgradeArg = <<>>

InitSum ==
    /\ LoaderIdle
    /\ excluded = {} /\ goMod = <<>> /\ repoTags = PublishedTags
    /\ repoRevs = PublishedRevs /\ infoCache = {}
    /\ QueryIdle /\ FnIdle /\ ReqIdle
    /\ GoSumFile \in {"", "go.sum"}
    /\ sumFile \in {NoFile} \cup
                   {File(l) : l \in IF GoSumFile = "" THEN {}
                                    ELSE SeqsOver(SumLineChoices, MaxSumLines)}
    /\ verifyFile \in {NoFile} \cup
                      (IF sumFile.exists THEN {File(<<SumLine(DlMod, "h1:B")>>)} ELSE {})
    /\ repoZip \in {[err |-> "zip", prefixOk |-> FALSE, hash |-> ""],
                    [err |-> "", prefixOk |-> FALSE, hash |-> ""],
                    [err |-> "", prefixOk |-> TRUE, hash |-> "h1:A"],
                    [err |-> "", prefixOk |-> TRUE, hash |-> "h1:B"]}
    /\ \E pre \in {"", "h1:A", "h1:B"} :
        /\ zipCache = IF pre = "" THEN {} ELSE {DlMod}
        /\ hashCache = [m \in {DlMod} |-> pre]
        /\ zipSum = [m \in {DlMod} |-> pre]
    /\ dirCache = {} /\ dirSum = [m \in {DlMod} |-> ""]
    /\ LedgerFresh
    /\ RestIdle

NextSum ==
    \/ DownloadStart \/ DlFetch \/ DlValidate \/ DlCheckOneSum \/ DlInstall
    \/ DlWriteHash \/ DlUnzip \/ DlCheckSum \/ CheckGoMod \/ WriteGoSum
    \/ RestartSum

SpecSum == InitSum /\ [][NextSum]_vars

\* Two workers and a cache that is empty or holds the zip and its hash from
\* an earlier run, with or without the extracted directory; no go.sum.
InitRace ==
    /\ LoaderIdle
    /\ excluded = {} /\ goMod = <<>> /\ repoTags = PublishedTags
    /\ repoRevs = PublishedRevs /\ infoCache = {}
    /\ QueryIdle /\ FnIdle /\ ReqIdle
    /\ GoSumFile = "" /\ sumFile = NoFile /\ verifyFile = NoFile
    /\ repoZip \in {[err |-> "zip", prefixOk |-> FALSE, hash |-> ""],
                    [err |-> "", prefixOk |-> TRUE, hash |-> "h1:A"],
                    [err |-> "", prefixOk |-> TRUE, hash |-> "h1:B"]}
    /\ \E pre \in {"", "h1:A", "h1:B"} : \E had \in BOOLEAN :
        /\ zipCache = IF pre = "" THEN {} ELSE {DlMod}
        /\ hashCache = [m \in {DlMod} |-> pre]
        /\ zipSum = [m \in {DlMod} |-> pre]
        /\ dirCache = IF pre # "" /\ had THEN {DlMod} ELSE {}
        /\ dirSum = [m \in {DlMod} |-> IF had THEN pre ELSE ""]
    /\ LedgerFresh
    /\ RestIdle

NextRace ==
    \/ \E w \in Workers : RaceReadDir(w)
    \/ \E w \in Workers : RaceStat(w)
    \/ \E w \in Workers : RaceFetch(w)
    \/ \E w \in Workers : RaceCreate(w)
    \/ \E w \in Workers : RaceCopy(w)
    \/ \E w \in Workers : RaceWriteHash(w)
    \/ \E w \in Workers : RaceUnzip(w)

SpecRace == InitRace /\ [][NextRace]_vars

InitPar ==
    /\ LoaderIdle
    /\ excluded = {} /\ goMod = <<>> /\ repoTags = PublishedTags
    /\ repoRevs = PublishedRevs /\ infoCache = {}
    /\ QueryIdle /\ FnIdle /\ ReqIdle /\ SumIdle /\ RestIdle

NextPar ==
    \/ \E c \in Callers : ParCall(c)
    \/ \E c \in Callers : ParCheck(c)
    \/ \E c \in Callers : ParLock(c)
    \/ \E c \in Callers : ParRun(c)
    \/ \E c \in Callers : ParReturn(c)

SpecPar == InitPar /\ [][NextPar]_vars

\* The subsequences of a list.
RECURSIVE SubLists(_)
SubLists(list) ==
    IF list = <<>> THEN {<<>>}
    ELSE Only({rest \cup {<<Head(list)>> \o q : q \in rest}
               : rest \in {SubLists(Tail(list))}})

\* A new loader over a build list with the target first, with or without
\* -getmode=vendor, a module replaced by a local directory, and a download
\* that fails.
InitImport ==
    /\ modRequire = <<>> /\ fatal = "" /\ lastOp = "start"
    /\ prevList = <<>> /\ prevRequire = <<>> /\ savedList = <<>> /\ diskFrom = <<>>
    /\ baseList = <<>> /\ upgradeList = <<>> /\ upgradeArg = <<>> /\ downgradeArg = <<>>
    /\ excluded = {} /\ goMod = <<>> /\ repoTags = PublishedTags
    /\ repoRevs = PublishedRevs /\ infoCache = {}
    /\ QueryIdle /\ FnIdle /\ ReqIdle
    /\ GoSumFile = "" /\ sumFile = NoFile /\ verifyFile = NoFile
    /\ repoZip = [err |-> "zip", prefixOk |-> FALSE, hash |-> ""]
    /\ zipCache = {} /\ hashCache = [m \in {DlMod} |-> ""] /\ dirCache = {}
    /\ zipSum = [m \in {DlMod} |-> ""] /\ dirSum = [m \in {DlMod} |-> ""]
    /\ LedgerFresh /\ RaceIdle /\ ParIdle /\ DiscIdle /\ ScanIdle /\ ExtraIdle
    /\ \E mods \in SubLists(ImportMods) : buildList = <<Target>> \o mods
    /\ modReplace \in {<<>>, <<[Old |-> MV("c", "v1.0.0"), New |-> MV("./local", "")]>>,
                        <<[Old |-> MV("c", ""), New |-> MV("./local", "")]>>}
    /\ BuildGetmode \in {"", "vendor"}
    /\ gorootDirs \in {{}, {"fmt"}}
    /\ fetchFail \in {S \in SUBSET Range(ImportMods) : Cardinality(S) <= MaxFetchFail}
    /\ ldImported = {} /\ ldPkgmod = [p \in ImportPaths |-> NoModule]
    /\ ldMissing = <<>> /\ ldPath = "" /\ ldDir = NoDir /\ ldErr = ""

NextImport == ImportDir

SpecImport == InitImport /\ [][NextImport]_vars

\* The hosts: each of a/b/c, a/b, a and d is served by no host, by a Repo
\* with a tagged version, by a Repo with no tag and no commit, or by a Repo
\* whose tagged version has no go.mod to give; one version may be excluded.
HostKinds == {"none", "tagged", "empty", "nomod"}

InitDiscover ==
    /\ LoaderIdle /\ goMod = <<>> /\ FnIdle /\ ReqIdle /\ SumIdle /\ QueryIdle
    /\ infoCache = {}
    /\ \E kind \in [{"a/b/c", "a/b", "a", "d"} -> HostKinds] :
        \E hosted \in {{p \in DOMAIN kind : kind[p] # "none"}} :
            /\ repoTags = [p \in hosted |->
                               IF kind[p] = "empty" THEN <<>> ELSE <<"v1.0.0">>]
            /\ repoRevs = [p \in hosted |->
                               [r \in {"master", "f488df80bcdb"} |->
                                   IF kind[p] = "empty" THEN ""
                                   ELSE IF r = "master" THEN "v1.0.0"
                                   ELSE PseudoVersion]]
            /\ gomodFail = {p \in hosted : kind[p] = "nomod"}
    /\ excluded \in {{}, {MV("a/b", "v1.0.0")}}
    /\ impPath = "" /\ impCur = "" /\ impTried = <<>>
    /\ impFirstErr = "" /\ impOut = ImportErr("") /\ impPc = "idle"
    /\ RaceIdle /\ ParIdle /\ ImportIdle /\ ScanIdle /\ ExtraIdle

NextDiscover == ImportStart \/ ImportTry

SpecDiscover == InitDiscover /\ [][NextDiscover]_vars

InitScan ==
    /\ LoaderIdle
    /\ excluded = {} /\ goMod = <<>> /\ repoTags = PublishedTags
    /\ repoRevs = PublishedRevs /\ infoCache = {}
    /\ QueryIdle /\ FnIdle /\ ReqIdle /\ SumIdle
    /\ RaceIdle /\ ParIdle /\ ImportIdle /\ DiscIdle /\ ExtraIdle
    /\ scanOut = <<>>
    /\ \E l \in SeqsOver(ScanPkgs, MaxScan) : \E t \in SeqsOver(ScanPkgs, 1) :
        scanned = [imports |-> l, testImports |-> t]

NextScan == ScanDir \/ ScanNext

SpecScan == InitScan /\ [][NextScan]_vars

\* ---- iterate, importPkg and findMissing (load.go) ----

\* What scanDir finds in the directory of a package: the target's package
\* t/x imports srcImports, and a/b/c imports d.
ScanImports(path) ==
    IF path = "t/x" THEN srcImports
    ELSE IF path = "a/b/c" THEN <<"d">>
    ELSE <<>>

\* importPkg over the list paths from index i; ld is the loader:
\* [imported, missing, err], err saying that base.Errorf was called.
RECURSIVE importList(_, _, _)
importList(paths, i, ld) ==
    Only({IF i > Len(ps) THEN l
          ELSE IF ps[i] \in l.imported THEN importList(ps, i + 1, l)
          ELSE Only({importList(ps, i + 1,
                        IF r.dir # NoDir
                        THEN importList(ScanImports(ps[i]), 1, l1)
                        ELSE l1)
                     : l1 \in {[imported |-> l.imported \cup {ps[i]},
                                missing |-> IF r.missing THEN Append(l.missing, ps[i])
                                            ELSE l.missing,
                                err |-> l.err \/ r.err # ""]}})
          : ps \in {paths}, l \in {ld}, r \in {IF i > Len(paths) THEN <<>>
                                                 ELSE importDir(paths[i])}})

\* The loop of modfetch.Import from the path cur: the first success of try,
\* or the first error once path.Dir gives "."; when path.Dir gives the path
\* it was given, the loop calls try with it again and for ever ("spin").
RECURSIVE importFrom(_, _)
importFrom(cur, firstErr) ==
    Only({IF r.err = "" THEN r
          ELSE IF p = "." THEN ImportErr(first)
          ELSE IF p = c THEN ImportErr("spin")
          ELSE importFrom(p, first)
          : c \in {cur}, r \in {try(cur)}, p \in {PathDir(cur)},
            first \in {IF firstErr = "" THEN try(cur).err ELSE firstErr}})

\* build.IsLocalImport: ".", "..", or a path that begins with "./" or "../".
IsLocalImport(path) ==
    LET c == Chars[path]
    IN \/ c = <<".">> \/ c = <<".", ".">>
       \/ (Len(c) >= 2 /\ SubSeq(c, 1, 2) = <<".", "/">>)
       \/ (Len(c) >= 3 /\ SubSeq(c, 1, 3) = <<".", ".", "/">>)

\* The build-list modules, those appended in this round among them, that
\* importPathInModule finds path in.
coveredBy(path) == {k \in DOMAIN buildList : importPathInModule(path, buildList[k].Path)}

\* mvsOp(Target, newReqs()) with mvs.BuildList for mvsOp.
mvsOp == BuildListOf(Target, Required(Target))

iterRest == <<excluded, modReplace, goMod, repoTags, lastOp, prevRequire, savedList,
              diskFrom, baseList, upgradeList, upgradeArg, downgradeArg,
              repoVars, qVars, fnVars, reqVars, sumVars, raceVars, parVars,
              BuildGetmode, gorootDirs, fetchFail, ldPkgmod, ldPath, ldDir, ldErr,
              discVars, scanVars, editVars, srcImports, upVars, convVars, findVars>>

\* iterate up to its loop: the build list is computed from go.mod.
IterStart ==
    /\ itPc = "start" /\ fatal = ""
    /\ \E bl \in {mvsOp} :
        IF bl.err # ""
        THEN fatal' = bl.err /\ itPc' = "exit" /\ buildList' = buildList
        ELSE fatal' = fatal /\ itPc' = "imports" /\ buildList' = bl.list
    /\ UNCHANGED <<modRequire, prevList, ldImported, ldMissing, found, addLog, itIdx, itErr>>
    /\ UNCHANGED iterRest

\* One turn of the loop up to the test of ld.missing: a new loader imports
\* the target's package and what it imports; with nothing missing the loop
\* ends and iterate returns, unless an error was reported.
DoImports ==
    /\ itPc = "imports"
    /\ prevList' = buildList
    /\ \E ld \in {importList(<<"t/x">>, 1, [imported |-> {}, missing |-> <<>>, err |-> FALSE])} :
        /\ ldImported' = ld.imported
        /\ ldMissing' = ld.missing
        /\ itErr' = ld.err
        /\ itIdx' = 1
        /\ itPc' = IF ld.missing # <<>> THEN "missing"
                   ELSE IF ld.err THEN "exit" ELSE "done"
    /\ UNCHANGED <<modRequire, buildList, fatal, found, addLog>>
    /\ UNCHANGED iterRest

\* findMissing that asks Import about every missing path.
FindMissingAll ==
    /\ itPc = "missing"
    /\ \E m \in {ldMissing[itIdx]} : \E r \in {importFrom(ldMissing[itIdx], "")} :
        \E after \in {IF itIdx = Len(ldMissing) THEN "rebuild" ELSE "missing"} :
           IF IsLocalImport(m)
           THEN /\ itErr' = TRUE /\ itPc' = after /\ itIdx' = itIdx + 1
                /\ UNCHANGED <<buildList, modRequire, fatal, found, addLog>>
           ELSE IF r.err = "spin"
           THEN /\ itPc' = "spin"
                /\ UNCHANGED <<buildList, modRequire, fatal, found, addLog, itIdx, itErr>>
           ELSE IF r.err # ""
           THEN /\ itErr' = TRUE /\ itPc' = after /\ itIdx' = itIdx + 1
                /\ UNCHANGED <<buildList, modRequire, fatal, found, addLog>>
           ELSE IF r.path \in found
           THEN /\ fatal' = "findmissing loop" /\ itPc' = "exit"
                /\ UNCHANGED <<buildList, modRequire, found, addLog, itIdx, itErr>>
           ELSE /\ found' = found \cup {r.path}
                /\ addLog' = Append(addLog, r.path)
                /\ buildList' = Append(buildList, MV(r.path, r.info.Version))
                /\ modRequire' = AddRequire(modRequire, MV(r.path, r.info.Version))
                /\ itPc' = after /\ itIdx' = itIdx + 1
                /\ UNCHANGED <<fatal, itErr>>
    /\ UNCHANGED <<prevList, ldImported, ldMissing>>
    /\ UNCHANGED iterRest

\* findMissing(m) for the next entry of ld.missing.
FindMissing ==
    /\ itPc = "missing"
    /\ \E m \in {ldMissing[itIdx]} : \E r \in {importFrom(ldMissing[itIdx], "")} :
        \E after \in {IF itIdx = Len(ldMissing) THEN "rebuild" ELSE "missing"} :
           IF coveredBy(m) # {}
           THEN /\ itPc' = after /\ itIdx' = itIdx + 1
                /\ UNCHANGED <<buildList, modRequire, fatal, found, addLog, itErr>>
           ELSE IF IsLocalImport(m)
           THEN /\ itErr' = TRUE /\ itPc' = after /\ itIdx' = itIdx + 1
                /\ UNCHANGED <<buildList, modRequire, fatal, found, addLog>>
           ELSE IF r.err = "spin"
           THEN /\ itPc' = "spin"
                /\ UNCHANGED <<buildList, modRequire, fatal, found, addLog, itIdx, itErr>>
           ELSE IF r.err # ""
           THEN /\ itErr' = TRUE /\ itPc' = after /\ itIdx' = itIdx + 1
                /\ UNCHANGED <<buildList, modRequire, fatal, found, addLog>>
           ELSE IF r.path \in found
           THEN /\ fatal' = "findmissing loop" /\ itPc' = "exit"
                /\ UNCHANGED <<buildList, modRequire, found, addLog, itIdx, itErr>>
           ELSE /\ found' = found \cup {r.path}
                /\ addLog' = Append(addLog, r.path)
                /\ buildList' = Append(buildList, MV(r.path, r.info.Version))
                /\ modRequire' = AddRequire(modRequire, MV(r.path, r.info.Version))
                /\ itPc' = after /\ itIdx' = itIdx + 1
                /\ UNCHANGED <<fatal, itErr>>
    /\ UNCHANGED <<prevList, ldImported, ldMissing>>
    /\ UNCHANGED iterRest

\* The end of a turn: base.ExitIfErrors, then the build list is computed
\* again from the list findMissing appended to.
Rebuild ==
    /\ itPc = "rebuild"
    /\ IF itErr
       THEN itPc' = "exit" /\ UNCHANGED <<buildList, fatal>>
       ELSE \E bl \in {mvsOp} :
            IF bl.err # ""
            THEN fatal' = bl.err /\ itPc' = "exit" /\ buildList' = buildList
            ELSE fatal' = fatal /\ itPc' = "imports" /\ buildList' = bl.list
    /\ UNCHANGED <<modRequire, prevList, ldImported, ldMissing, found, addLog, itIdx, itErr>>
    /\ UNCHANGED iterRest

MaxSrcImports == 2

\* The hosts of a/b/c, a/b, a and d, as for Import, and the imports of the
\* target's package.
InitIter ==
    /\ LoaderIdle /\ FnIdle /\ ReqIdle /\ SumIdle /\ QueryIdle
    /\ infoCache = {} /\ excluded = {}
    /\ \E kind \in [{"a/b/c", "a/b", "a", "d"} -> {"none", "tagged", "nomod"}] :
        \E hosted \in {{p \in DOMAIN kind : kind[p] # "none"}} :
            /\ repoTags = [p \in hosted |-> <<"v1.0.0">>]
            /\ repoRevs = [p \in hosted |->
                               [r \in {"master", "f488df80bcdb"} |->
                                   IF r = "master" THEN "v1.0.0" ELSE PseudoVersion]]
            /\ gomodFail = {p \in hosted : kind[p] = "nomod"}
            /\ goMod = [m \in {MV(q, "v1.0.0") : q \in hosted} |-> <<>>]
    /\ impPath = "" /\ impCur = "" /\ impTried = <<>>
    /\ impFirstErr = "" /\ impOut = ImportErr("") /\ impPc = "idle"
    /\ RaceIdle /\ ParIdle /\ ImportIdle /\ ScanIdle /\ EditIdle /\ UpIdle /\ ConvIdle
    /\ FindIdle
    /\ found = {} /\ addLog = <<>> /\ itPc = "start" /\ itIdx = 0 /\ itErr = FALSE
    /\ srcImports \in SeqsOver({"a/b/c", "a/b", "d", "/x"}, MaxSrcImports)

NextIter == IterStart \/ DoImports \/ FindMissing \/ Rebuild

SpecIter == InitIter /\ [][NextIter]_vars

\* The go.mod vgo mod starts from: empty, or one requirement, exclusion and
\* replacement.
InitEdit ==
    /\ buildList = <<>> /\ fatal = "" /\ lastOp = "start"
    /\ prevList = <<>> /\ prevRequire = <<>> /\ savedList = <<>> /\ diskFrom = <<>>
    /\ baseList = <<>> /\ upgradeList = <<>> /\ upgradeArg = <<>> /\ downgradeArg = <<>>
    /\ excluded = {} /\ goMod = <<>> /\ repoTags = PublishedTags
    /\ repoRevs = PublishedRevs /\ infoCache = {}
    /\ QueryIdle /\ FnIdle /\ ReqIdle /\ SumIdle
    /\ RaceIdle /\ ParIdle /\ ImportIdle /\ DiscIdle /\ ScanIdle /\ IterIdle /\ UpIdle /\ ConvIdle
    /\ FindIdle
    /\ modEdits = <<>>
    /\ \E full \in BOOLEAN :
        /\ modRequire = IF full THEN <<MV("x", "v1.0.0")>> ELSE <<>>
        /\ modExclude = IF full THEN <<MV("x", "v1.0.0")>> ELSE <<>>
        /\ modReplace = IF full THEN <<[Old |-> MV("x", "v1.0.0"), New |-> MV("../z", "")]>>
                        ELSE <<>>

NextEdit == FlagSet \/ RunMod

SpecEdit == InitEdit /\ [][NextEdit]_vars

----------------------------------------------------------------------------
(* Query over every repository state.                                      *)

QueryTags == <<"v1.0.0", "v1.1.0-pre", "v1.1.0", "v1.2.0-pre", "v1.2.0">>

\* SortVersions (repo.go): ascending by semver.Compare.
RECURSIVE SortVersions(_)
SortVersions(S) ==
    IF S = {} THEN <<>>
    ELSE Only({<<v>> \o SortVersions(S \ {v})
               : v \in {CHOOSE x \in S : \A y \in S : Compare(x, y) <= 0}})

QueryExprs ==
    {"v1.0.0", "v1.1.0", "v1", "v1.1", ">v1.0.0", "<v1.1.0", "<v1.2.0", ">bogus", "latest",
     "master", "f488df80bcdb", PseudoVersion, "bogus"}

\* The .info files a download cache may hold when a process starts.
InfoCaches == {{}, {MV("a", "v1.0.0")}, {MV("a", "v1.2.0")}}

InitQuery ==
    /\ LoaderIdle /\ goMod = <<>> /\ FnIdle /\ ReqIdle /\ SumIdle /\ RestIdle /\ QueryIdle
    /\ \E T \in SUBSET Range(QueryTags) :
        /\ repoTags = [p \in {"a"} |-> SortVersions(T)]
        /\ \E head \in T \cup {PseudoVersion, ""} :
            repoRevs = [p \in {"a"} |->
                           [r \in {"master", "f488df80bcdb"} |->
                               IF head = "" THEN ""
                               ELSE IF r = "master" THEN head ELSE PseudoVersion]]
    /\ excluded \in {S \in SUBSET {MV("a", v) : v \in Range(QueryTags) \cup {PseudoVersion}} :
                        Cardinality(S) <= MaxExcluded}
    /\ infoCache \in InfoCaches

\* One call of Query, as get and the loader make it.
DoQuery ==
    /\ \E path \in {"a", "b"}, vers \in QueryExprs :
        /\ qOut' = Query(path, vers)
        /\ qExpr' = <<path, vers>>
    /\ UNCHANGED <<mvsVars, repoVars, fnVars, reqVars, sumVars, restVars>>

NextQuery == DoQuery

SpecQuery == InitQuery /\ [][NextQuery]_vars

----------------------------------------------------------------------------
(* mvsReqs.Upgrade (load.go).                                              *)

MaxTime == 3

\* The time the pseudo-version of the commit f488df80bcdb encodes.
PseudoTime == 2

\* modfetch.PseudoVersionTime: the time a pseudo-version encodes, an error
\* for any other version.
PseudoVersionTime(v) ==
    IF v = PseudoVersion THEN [time |-> PseudoTime, err |-> ""]
    ELSE [time |-> 0, err |-> "not a pseudo-version"]

\* info.Time: the commit time of the revision the RevInfo is of.
infoTime(info) ==
    IF info.Version = PseudoVersion THEN PseudoTime ELSE tagTime[info.Version]

\* Upgrade without the test of the pseudo-version's time.
UpgradeAlways(m) ==
    LET q == Query(m.Path, "latest")
    IN IF q.err # "" THEN [mod |-> NoModule, err |-> q.err]
       ELSE IF Compare(q.info.Version, m.Version) < 0 THEN [mod |-> m, err |-> ""]
       ELSE [mod |-> MV(m.Path, q.info.Version), err |-> ""]

\* mvsReqs.Upgrade
Upgrade(m) ==
    LET q == Query(m.Path, "latest")
        mTime == PseudoVersionTime(m.Version)
    IN IF q.err # "" THEN [mod |-> NoModule, err |-> q.err]
       ELSE IF Compare(q.info.Version, m.Version) < 0 THEN [mod |-> m, err |-> ""]
       ELSE IF mTime.err = "" /\ infoTime(q.info) < mTime.time THEN [mod |-> m, err |-> ""]
       ELSE [mod |-> MV(m.Path, q.info.Version), err |-> ""]

\* The tags a repository may have, in the order of Versions.
UpgradeTags == <<"v0.0.0-1", "v1.0.0", "v1.1.0", "v1.2.0-pre">>

\* The versions of a module of the build list.
UpgradeFrom == {PseudoVersion, "v1.0.0", "v1.1.0", "v1.2.0-pre", "v2.0.0"}

InitUpgrade ==
    /\ LoaderIdle /\ goMod = <<>> /\ FnIdle /\ ReqIdle /\ SumIdle /\ QueryIdle
    /\ RaceIdle /\ ParIdle /\ ImportIdle /\ DiscIdle /\ ScanIdle /\ EditIdle /\ IterIdle
    /\ ConvIdle /\ FindIdle
    /\ \E T \in SUBSET Range(UpgradeTags) :
        /\ repoTags = [p \in {"a"} |-> SortVersions(T)]
        /\ tagTime \in [T -> 1..MaxTime]
    /\ repoRevs = [p \in {"a"} |->
                      [r \in {"master", "f488df80bcdb"} |-> PseudoVersion]]
    /\ excluded \in SUBSET {MV("a", "v1.1.0")}
    /\ infoCache = {}
    /\ upArg = NoModule /\ upOut = [mod |-> NoModule, err |-> ""]

\* mvs.UpgradeAll calls reqs.Upgrade for a module of the build list.
DoUpgrade ==
    /\ \E m \in {MV("a", v) : v \in UpgradeFrom} :
        /\ upArg' = m
        /\ upOut' = Upgrade(m)
    /\ UNCHANGED <<mvsVars, repoVars, qVars, fnVars, reqVars, sumVars, raceVars, parVars,
                   importVars, discVars, scanVars, editVars, iterVars, tagTime, convVars,
                   findVars>>

NextUpgrade == DoUpgrade

SpecUpgrade == InitUpgrade /\ [][NextUpgrade]_vars

----------------------------------------------------------------------------
(* ConvertLegacyConfig (convert.go).                                       *)

MaxLegacy == 3

\* The path work.Add is given: a path under github.com/ or golang.org/x/
\* is cut to its first three elements.
repoRoot(path) == IF path = "github.com/x/y/z" THEN "github.com/x/y" ELSE path

\* The items the loop over result.Require adds to work; Add takes an item
\* it already has once.
workOf(list) ==
    {MV(repoRoot(list[i].Path), list[i].Version) : i \in {j \in DOMAIN list : list[j].Path # ""}}

\* semver.Max
semverMax(v, w) == IF Compare(v, w) > 0 THEN v ELSE w

\* need[path], the zero value for a missing key.
needOf(path) == IF path \in DOMAIN need THEN need[path] ELSE ""

\* File.AddNewRequire for every path of the sorted list paths, from index i.
RECURSIVE addNeeded(_, _, _)
addNeeded(list, paths, i) ==
    IF i > Len(paths) THEN list
    ELSE addNeeded(Append(list, MV(paths[i], need[paths[i]])), paths, i + 1)

convRest == <<excluded, modReplace, buildList, goMod, repoTags, fatal, lastOp, prevList,
              prevRequire, savedList, diskFrom, baseList, upgradeList, upgradeArg,
              downgradeArg, repoVars, qVars, fnVars, reqVars, sumVars, raceVars, parVars,
              importVars, discVars, scanVars, editVars, iterVars, upVars, legacy,
              findVars>>

\* ConvertLegacyConfig up to work.Do: the items are added to work.
ConvStart ==
    /\ convPc = "start"
    /\ workItems' = workOf(legacy)
    /\ convPc' = "do"
    /\ UNCHANGED <<modRequire, need, mu, kPc, kItem, kInfo>>
    /\ UNCHANGED convRest

\* A worker of work.Do takes an item, any of those left.
TakeItem(w) ==
    /\ convPc = "do" /\ kPc[w] = "idle"
    /\ \E item \in workItems :
        /\ workItems' = workItems \ {item}
        /\ kItem' = [kItem EXCEPT ![w] = item]
    /\ kPc' = [kPc EXCEPT ![w] = "stat"]
    /\ UNCHANGED <<modRequire, need, mu, kInfo, convPc>>
    /\ UNCHANGED convRest

\* The worker's Stat: with an error the function prints it and returns.
StatItem(w) ==
    /\ kPc[w] = "stat"
    /\ \E r \in {Stat(kItem[w].Path, kItem[w].Version)} :
        IF r.err # ""
        THEN kPc' = [kPc EXCEPT ![w] = "idle"] /\ kInfo' = kInfo
        ELSE kPc' = [kPc EXCEPT ![w] = "lock"]
             /\ kInfo' = [kInfo EXCEPT ![w] = r.info.Version]
    /\ UNCHANGED <<modRequire, workItems, need, mu, kItem, convPc>>
    /\ UNCHANGED convRest

\* mu.Lock()
LockMu(w) ==
    /\ kPc[w] = "lock" /\ mu = 0
    /\ mu' = w
    /\ kPc' = [kPc EXCEPT ![w] = "max"]
    /\ UNCHANGED <<modRequire, workItems, need, kItem, kInfo, convPc>>
    /\ UNCHANGED convRest

\* The worker's update of need that stores the version it has.
StoreLast(w) ==
    /\ kPc[w] = "max"
    /\ need' = [p \in DOMAIN need \cup {kItem[w].Path} |->
                    IF p = kItem[w].Path THEN kInfo[w] ELSE need[p]]
    /\ mu' = 0
    /\ kPc' = [kPc EXCEPT ![w] = "idle"]
    /\ UNCHANGED <<modRequire, workItems, kItem, kInfo, convPc>>
    /\ UNCHANGED convRest

\* need[r.Path] = semver.Max(need[r.Path], info.Version); mu.Unlock()
StoreMax(w) ==
    /\ kPc[w] = "max"
    /\ need' = [p \in DOMAIN need \cup {kItem[w].Path} |->
                    IF p = kItem[w].Path THEN semverMax(needOf(p), kInfo[w]) ELSE need[p]]
    /\ mu' = 0
    /\ kPc' = [kPc EXCEPT ![w] = "idle"]
    /\ UNCHANGED <<modRequire, workItems, kItem, kInfo, convPc>>
    /\ UNCHANGED convRest

\* work.Do has returned: every item is done; the paths of need are sorted
\* and each is added to the file.
ConvFinish ==
    /\ convPc = "do" /\ workItems = {} /\ \A w \in 1..ConvWorkers : kPc[w] = "idle"
    /\ modRequire' = addNeeded(modRequire, SortPaths(DOMAIN need), 1)
    /\ convPc' = "done"
    /\ UNCHANGED <<workItems, need, mu, kPc, kItem, kInfo>>
    /\ UNCHANGED convRest

\* The revisions a legacy file may name.
LegacyItems ==
    {MV("a", "master"), MV("a", "f488df80bcdb"), MV("a", "bogus"),
     MV("github.com/x/y/z", "master"), MV("github.com/x/y", "f488df80bcdb"),
     MV("", "master")}

\* a and github.com/x/y are hosted; the commit f488df80bcdb has no tag.
InitConvert ==
    /\ LoaderIdle /\ goMod = <<>> /\ FnIdle /\ ReqIdle /\ SumIdle /\ QueryIdle
    /\ RaceIdle /\ ParIdle /\ ImportIdle /\ DiscIdle /\ ScanIdle /\ EditIdle /\ IterIdle
    /\ UpIdle /\ FindIdle
    /\ excluded = {} /\ infoCache = {}
    /\ repoTags = [p \in {"a", "github.com/x/y"} |->
                      IF p = "a" THEN <<"v1.0.0", "v1.1.0">> ELSE <<"v1.0.0">>]
    /\ repoRevs = [p \in {"a", "github.com/x/y"} |->
                      [r \in {"master", "f488df80bcdb"} |->
                          IF r = "f488df80bcdb" THEN PseudoVersion
                          ELSE IF p = "a" THEN "v1.1.0" ELSE "v1.0.0"]]
    /\ legacy \in SeqsOver(LegacyItems, MaxLegacy)
    /\ workItems = {} /\ need = <<>> /\ mu = 0
    /\ kPc = [w \in 1..ConvWorkers |-> "idle"]
    /\ kItem = [w \in 1..ConvWorkers |-> NoModule]
    /\ kInfo = [w \in 1..ConvWorkers |-> ""]
    /\ convPc = "start"

NextConvert ==
    \/ ConvStart
    \/ \E w \in 1..ConvWorkers : TakeItem(w)
    \/ \E w \in 1..ConvWorkers : StatItem(w)
    \/ \E w \in 1..ConvWorkers : LockMu(w)
    \/ \E w \in 1..ConvWorkers : StoreMax(w)
    \/ ConvFinish

SpecConvert == InitConvert /\ [][NextConvert]_vars

----------------------------------------------------------------------------
(* FindModulePath (init.go). A directory is the sequence of its elements.  *)

\* strings.HasPrefix(d, src) for src ending in the separator.
HasPrefixDir(d, src) == Len(d) > Len(src) /\ SubSeq(d, 1, Len(src)) = src

\* filepath.ToSlash of a relative directory: its elements joined by "/".
ToSlash(d) ==
    CASE d = <<"x">> -> "x"
      [] d = <<"example.com", "x">> -> "example.com/x"
      [] d = <<"src", "x">> -> "src/x"
      [] OTHER -> ""

\* The path of the directory arg relative to the src directory of the first
\* GOPATH entry, from index i, that holds it; "" when none does.
RECURSIVE RelToGopath(_, _)
RelToGopath(arg, i) ==
    IF i > Len(GOPATH) THEN ""
    ELSE LET src == Append(GOPATH[i], "src")
         IN IF HasPrefixDir(arg, src)
            THEN ToSlash(SubSeq(arg, Len(src) + 1, Len(arg)))
            ELSE RelToGopath(arg, i + 1)

\* The loop over the GOPATH list from index i: the range variable is named
\* dir and hides the parameter, so the prefix test is on the GOPATH entry.
RECURSIVE gopathLoop(_, _)
gopathLoop(arg, i) ==
    IF i > Len(GOPATH) THEN ""
    ELSE LET dir == GOPATH[i]
             src == Append(dir, "src")
         IN IF HasPrefixDir(dir, src)
            THEN ToSlash(SubSeq(dir, Len(src) + 1, Len(dir)))
            ELSE gopathLoop(arg, i + 1)

\* "github.com/" + m[1] for the origin of .git/config.
gitOrigin(repo) == IF repo = "x/y" THEN "github.com/x/y" ELSE ""

\* FindModulePath
FindModulePath(dir) ==
    LET ok(p) == [path |-> p, err |-> ""]
    IN IF gopathLoop(dir, 1) # "" THEN ok(gopathLoop(dir, 1))
       ELSE IF srcTree.top # "" THEN ok(srcTree.top)
       ELSE IF srcTree.sub # "" THEN ok(PathDir(srcTree.sub))
       ELSE IF srcTree.godeps # "" THEN ok(srcTree.godeps)
       ELSE IF srcTree.vendor # "" THEN ok(srcTree.vendor)
       ELSE IF srcTree.git # "" THEN ok(gitOrigin(srcTree.git))
       ELSE [path |-> "", err |-> "cannot determine module path"]

\* The directories FindModulePath is called with.
FindDirs ==
    {<<"gp", "src", "example.com", "x">>, <<"gp", "src", "x">>, <<"gp2", "src", "x">>,
     <<"home", "x">>, <<"gp", "src">>}

InitFind ==
    /\ LoaderIdle /\ goMod = <<>> /\ FnIdle /\ ReqIdle /\ SumIdle /\ QueryIdle
    /\ repoTags = <<>> /\ repoRevs = <<>> /\ excluded = {} /\ infoCache = {}
    /\ RaceIdle /\ ParIdle /\ ImportIdle /\ DiscIdle /\ ScanIdle /\ EditIdle /\ IterIdle
    /\ UpIdle /\ ConvIdle
    /\ GOPATH \in {<<>>, <<<<"gp">>>>, <<<<"gp2">>, <<"gp">>>>}
    /\ srcTree \in [top : {"", "t"}, sub : {"", "a/b"}, godeps : {"", "unexpected.com/z"},
                     vendor : {"", "vendor.example/r"}, git : {"", "x/y"}]
    /\ fmDir = <<>> /\ fmOut = [path |-> "", err |-> ""]

\* vgo init calls FindModulePath for the source directory.
DoFind ==
    /\ \E dir \in FindDirs :
        /\ fmDir' = dir
        /\ fmOut' = FindModulePath(dir)
    /\ UNCHANGED <<mvsVars, repoVars, qVars, fnVars, reqVars, sumVars, raceVars, parVars,
                   importVars, discVars, scanVars, editVars, iterVars, upVars, convVars,
                   GOPATH, srcTree>>

NextFind == DoFind

SpecFind == InitFind /\ [][NextFind]_vars

----------------------------------------------------------------------------
(* mvsReqs.Required over every exclude set.                                *)

RequiredMods == {Target, MV("b", "v1.0.0")}

InitRequired ==
    /\ modReplace = <<>> /\ buildList = <<>>
    /\ fatal = "" /\ lastOp = "start"
    /\ prevList = <<>> /\ prevRequire = <<>> /\ savedList = <<>> /\ diskFrom = <<>>
    /\ baseList = <<>> /\ upgradeList = <<>> /\ upgradeArg = <<>> /\ downgradeArg = <<>>
    /\ FnIdle /\ ReqIdle /\ SumIdle /\ RestIdle /\ QueryIdle
    /\ repoRevs = PublishedRevs /\ infoCache = {}
    /\ \E T \in SUBSET Range(QueryTags) : repoTags = [p \in {"a"} |-> SortVersions(T)]
    /\ excluded \in SUBSET {MV("a", v) : v \in Range(QueryTags)}
    /\ \E l \in SeqsOver({MV("a", v) : v \in Range(QueryTags) \cup {PseudoVersion}}, MaxReqs) :
        /\ modRequire = l
        /\ goMod = [m \in {MV("b", "v1.0.0")} |-> l]

\* One call of mvsReqs.Required, as mvs makes it.
CallRequired ==
    /\ \E mod \in RequiredMods :
        /\ reqArg' = mod
        /\ reqOut' = Required(mod)
    /\ UNCHANGED <<mvsVars, repoVars, qVars, fnVars, sumVars, restVars>>

NextRequired == CallRequired

SpecRequired == InitRequired /\ [][NextRequired]_vars

----------------------------------------------------------------------------
(* mvsReqs.Max over the versions mvs hands it.                             *)

\* The target's empty version, tagged versions and a pseudo-version.
MaxVersions ==
    {"", "v0.9.0", "v1.0.0", "v1.1.0-pre", "v1.1.0", "v1.2.0", "v2.0.0", PseudoVersion}

InitMax ==
    /\ LoaderIdle /\ excluded = {} /\ goMod = <<>> /\ repoTags = PublishedTags
    /\ repoRevs = PublishedRevs /\ infoCache = {}
    /\ QueryIdle /\ ReqIdle /\ SumIdle /\ RestIdle
    /\ argA \in MaxVersions /\ argB \in MaxVersions
    /\ outA = "" /\ outB = ""

\* Max on the pair in both orders.
CallMax ==
    /\ lastOp = "start"
    /\ outA' = Max(argA, argB)
    /\ outB' = Max(argB, argA)
    /\ lastOp' = "Max"
    /\ UNCHANGED <<modRequire, excluded, modReplace, buildList, goMod, repoTags, fatal,
                   prevList, prevRequire, savedList, diskFrom, baseList, upgradeList,
                   upgradeArg, downgradeArg>>
    /\ UNCHANGED <<argA, argB, repoVars, qVars, reqVars, sumVars, restVars>>

NextMax == CallMax

SpecMax == InitMax /\ [][NextMax]_vars

----------------------------------------------------------------------------
(* Properties of the build list. *)

\* The requirements the target had when the last handler started, as
\* mvsReqs.Required returned them.
RootBefore ==
    substitute(IF prevList # <<>> THEN Tail(prevList) ELSE prevRequire, 1, <<>>).list

\* Every module version reachable from S through Required.
RECURSIVE Reachable(_)
Reachable(S) ==
    Only({IF S1 = S THEN S1 ELSE Reachable(S1)
          : S1 \in {S \cup UNION {Range(Required(m).list) : m \in S \ {Target}}}})

\* C1: the build list LoadBuildList computes has the target first, and after it
\* every module path reachable from the target through Required exactly once,
\* in path order, at the greatest version of that path that is reachable.
C1_BuildListSelectsMaximum ==
    (lastOp = "LoadBuildList" /\ fatal = "") =>
        LET R == Reachable(Range(RootBefore))
            tail == Tail(buildList)
        IN /\ buildList[1] = Target
           /\ \A i \in 1..(Len(tail) - 1) :
                  PathRank[tail[i].Path] < PathRank[tail[i + 1].Path]
           /\ {tail[i].Path : i \in 1..Len(tail)} = {m.Path : m \in R} \ {TargetPath}
           /\ \A i \in 1..Len(tail) :
                  /\ tail[i] \in R
                  /\ \A m \in R : m.Path = tail[i].Path =>
                         Compare(m.Version, tail[i].Version) <= 0

\* A build list in which a path is selected above the version the target
\* demanded, and a path the target never named is listed.
C1_Witness ==
    /\ lastOp = "LoadBuildList" /\ fatal = "" /\ prevList = <<>>
    /\ \E i \in 1..Len(prevRequire) : \E j \in 2..Len(buildList) :
           /\ buildList[j].Path = prevRequire[i].Path
           /\ Compare(prevRequire[i].Version, buildList[j].Version) < 0
    /\ \E j \in 2..Len(buildList) :
           buildList[j].Path \notin {prevRequire[i].Path : i \in 1..Len(prevRequire)}

\* C7: a process that starts from the go.mod a previous process wrote with
\* mvs.Req of its build list L computes exactly L again.
C7_ReqRoundTrip ==
    (lastOp = "LoadBuildList" /\ fatal = "" /\ prevList = <<>> /\ diskFrom # <<>>)
        => buildList = diskFrom

\* The round trip where Req dropped an implied requirement from go.mod.
C7_Witness ==
    /\ lastOp = "LoadBuildList" /\ fatal = "" /\ prevList = <<>> /\ diskFrom # <<>>
    /\ Len(prevRequire) + 1 < Len(diskFrom)
    /\ Len(prevRequire) >= 2

\* C10: LoadBuildList run again in a process that already holds a build list
\* (the target then requires the tail of that list) leaves the list as it was.
C10_BuildListIdempotent ==
    (lastOp = "LoadBuildList" /\ fatal = "" /\ prevList # <<>>)
        => buildList = prevList

\* A second run over a list of three modules or more.
C10_Witness ==
    /\ lastOp = "LoadBuildList" /\ fatal = "" /\ prevList # <<>>
    /\ Len(buildList) >= 4

\* C9: every module path of the build list the manifest had before a get is
\* still in the list mvs.Upgrade returns, at a version that is not lower.
C9_UpgradeMonotone ==
    (lastOp = "runGet:upgrade" /\ fatal = "") =>
        \A i \in 1..Len(baseList) : \E j \in 1..Len(upgradeList) :
            /\ upgradeList[j].Path = baseList[i].Path
            /\ \/ upgradeList[j].Version = baseList[i].Version
               \/ Compare(upgradeList[j].Version, baseList[i].Version) > 0

\* An upgrade that raised one path of a list of three modules or more.
C9_Witness ==
    /\ lastOp = "runGet:upgrade" /\ fatal = ""
    /\ Len(baseList) >= 3
    /\ upgradeArg # <<>>
    /\ \E i \in 2..Len(baseList) : \E j \in 2..Len(upgradeList) :
           /\ upgradeList[j].Path = baseList[i].Path
           /\ Compare(upgradeList[j].Version, baseList[i].Version) > 0

\* C2: with the ledger in use, a computed hash checked against a stored list
\* that holds an h1: hash and no hash equal to it ends the process with a
\* checksum mismatch, and the stored list of the key stays as it was.
C2_MismatchIsFatal ==
    (/\ chkKey # NoModule /\ chkUsed
     /\ \E i \in 1..Len(chkBefore) : IsH1(chkBefore[i])
     /\ chkHash \notin Range(chkBefore))
        => /\ sumFatal = "checksum mismatch"
           /\ sumOf(goSum, chkKey) = chkBefore

\* A mismatch found behind a hash of another algorithm.
C2_Witness ==
    /\ chkKey # NoModule /\ chkUsed
    /\ Len(chkBefore) >= 2 /\ ~IsH1(chkBefore[1]) /\ IsH1(chkBefore[2])
    /\ chkHash \notin Range(chkBefore)
    /\ sumFatal = "checksum mismatch"

\* C3: a Download that found neither the zip nor the directory writes the zip
\* to the cache only after checkOneSum accepted the archive's hash, and when
\* that check ends the process neither the zip nor the directory exists.
C3_CheckBeforeZip ==
    /\ (dlFresh /\ DlMod \in zipCache) => dlChecked
    /\ (dlFresh /\ dlPc = "check" /\ sumFatal # "")
           => (DlMod \notin zipCache /\ DlMod \notin dirCache)

\* A download of a module not in the cache stopped by the ledger.
C3_Witness ==
    /\ dlFresh /\ dlPc = "check" /\ sumFatal = "checksum mismatch"
    /\ chkKey = DlMod /\ chkHash = dlHash
    /\ DlMod \notin zipCache

\* C4: with the ledger in use, a computed hash equal to any hash of the stored
\* list is accepted and the stored hashes stay the same; with no stored hash
\* the computed one becomes the key's entry.
C4_AnyMemberAccepted ==
    (chkKey # NoModule /\ chkUsed) =>
        /\ chkHash \in Range(chkBefore) =>
               /\ sumFatal = ""
               /\ Range(sumOf(goSum, chkKey)) = Range(chkBefore)
        /\ chkBefore = <<>> => Range(sumOf(goSum, chkKey)) = {chkHash}

\* The versions of path published above v and not excluded.
NewerAllowed(m) ==
    {v \in Range(repoTags[m.Path]) :
        Compare(v, m.Version) > 0 /\ MV(m.Path, v) \notin excluded}

\* The requirements the module handed to Required declares.
Declared == IF reqArg = Target THEN modRequire ELSE goMod[reqArg]

\* C5: what Required returns is outside the exclude set: a declared version
\* that is not excluded is returned as it is, an excluded one is replaced by
\* the smallest published version above it that is not excluded, and when
\* there is none Required fails with "no newer version available".
C5_RequiredSkipsExcluded ==
    reqArg # NoModule =>
        IF \E i \in 1..Len(Declared) :
               Declared[i] \in excluded /\ NewerAllowed(Declared[i]) = {}
        THEN reqOut.err = "no newer version available"
        ELSE /\ reqOut.err = ""
             /\ Len(reqOut.list) = Len(Declared)
             /\ \A i \in 1..Len(Declared) :
                 LET d == Declared[i]
                     r == reqOut.list[i]
                 IN /\ r \notin excluded
                    /\ r.Path = d.Path
                    /\ d \notin excluded => r = d
                    /\ d \in excluded =>
                           /\ r.Version \in NewerAllowed(d)
                           /\ \A v \in NewerAllowed(d) : Compare(r.Version, v) <= 0

\* A declared version replaced by one two versions up, the one between being
\* excluded too.
C5_Witness ==
    /\ reqArg # NoModule /\ reqOut.err = ""
    /\ \E i \in 1..Len(Declared) :
        /\ Declared[i] \in excluded
        /\ \E v \in Range(repoTags["a"]) :
            /\ Compare(v, Declared[i].Version) > 0
            /\ Compare(v, reqOut.list[i].Version) < 0
            /\ MV("a", v) \in excluded

\* C6: whatever the form of the expression, the version Query returns is one
\* the allowed predicate accepts.
C6_QueryHonoursAllowed ==
    (qExpr # <<>> /\ qOut.err = "") => allowed(MV(qExpr[1], qOut.info.Version))

\* C8: Max gives the same version for a pair in either order.
C8_MaxCommutative ==
    lastOp = "Max" => outA = outB

\* C11: whenever the extracted directory of the module is non-empty, the
\* module's .ziphash file exists and holds the h1 of the zip the directory
\* was extracted from.
C11_DirImpliesZiphash ==
    DlMod \in dirCache =>
        /\ hashCache[DlMod] # ""
        /\ hashCache[DlMod] = dirSum[DlMod]

\* C12: with two workers in Download for the same module version, no worker
\* finds or unpacks a partially written zip, and the workers that returned
\* all returned the directory.
C12_NoPartialZipSeen ==
    \A w \in Workers :
        /\ wSaw[w] # "partial"
        /\ (wPc[w] = "done" /\ repoZip.err = "") => wOut[w] = "dir"

\* The (module key, hash) pairs of a ledger.
LedgerPairs(sum) ==
    UNION {{<<k, sum[k][i]>> : i \in DOMAIN sum[k]} : k \in DOMAIN sum}

\* C13: once the ledger is loaded, every (module key, hash) pair it holds
\* before a step of the process is still in it after the step.
C13_LedgerOnlyGrows ==
    [][(~goSumNil /\ ~goSumNil') => LedgerPairs(goSum) \subseteq LedgerPairs(goSum')]_vars

\* A check added a hash to a key that already had stored hashes.
C13_Witness ==
    /\ ~goSumNil /\ chkUsed /\ sumFatal = ""
    /\ chkBefore # <<>>
    /\ chkHash \notin Range(chkBefore)
    /\ Len(sumOf(goSum, chkKey)) = Len(chkBefore) + 1
    /\ Range(chkBefore) \subseteq Range(sumOf(goSum, chkKey))
    /\ chkHash \in Range(sumOf(goSum, chkKey))

\* The tagged versions of the repository of the last Query that the allowed
\* predicate accepts, and the greatest and the smallest of a set of versions.
AllowedTags == {v \in Range(repoTags[qExpr[1]]) : allowed(MV(qExpr[1], v))}
Greatest(S) == CHOOSE v \in S : \A w \in S : Compare(w, v) <= 0
Smallest(S) == CHOOSE v \in S : \A w \in S : Compare(v, w) <= 0
QueryOf(e) == qExpr # <<>> /\ qExpr[2] = e /\ Lookup(qExpr[1]) = ""

\* C14: Query for "latest" returns the greatest allowed tagged release; with
\* no allowed release, the greatest allowed tagged prerelease; and what
\* Repo.Latest gives only when the repository has no tagged version.
C14_LatestPrefersRelease ==
    QueryOf("latest") =>
        LET rel == {v \in AllowedTags : Prerelease(v) = ""}
            pre == {v \in AllowedTags : Prerelease(v) # ""}
        IN /\ rel # {} => qOut = InfoOk(Greatest(rel))
           /\ (rel = {} /\ pre # {}) => qOut = InfoOk(Greatest(pre))
           /\ repoTags[qExpr[1]] = <<>> => qOut = repoLatest(qExpr[1])
           /\ (repoTags[qExpr[1]] # <<>> /\ AllowedTags = {})
                  => qOut = InfoErr("no matching versions")

\* "latest" answered with the greater of two allowed prereleases while a
\* release is tagged and excluded.
C14_Witness ==
    /\ QueryOf("latest")
    /\ {"v1.1.0-pre", "v1.2.0-pre"} \subseteq AllowedTags
    /\ \A v \in AllowedTags : Prerelease(v) # ""
    /\ \E v \in Range(repoTags[qExpr[1]]) : Prerelease(v) = "" /\ v \notin AllowedTags
    /\ qOut = InfoOk("v1.2.0-pre")

C16_QueryIgnoresInfoCache ==
    qExpr # <<>> => \A cache \in InfoCaches : QueryIn(cache, qExpr[1], qExpr[2]) = qOut

\* C17: for every key the underlying operation has run at most once, and
\* every caller that returned for the key, while others were inside or
\* later, was given the result of that one run, an error included.
C17_OncePerKey ==
    \A k \in ParKeys :
        /\ parRuns[k] <= 1
        /\ parSeen[k] # {} => (parEntry[k].done /\ parSeen[k] = {parEntry[k].result})
        /\ \A c \in Callers :
            (cGot[c] # <<>> /\ cGot[c][1] = k) => cGot[c][2] = parEntry[k].result

\* The operation failed for the first caller; the second waited for the lock
\* and holds it with the entry done, and the operation has run once.
C17_Witness ==
    \E k \in ParKeys :
        /\ cGot[1] = <<k, "err">>
        /\ cPc[2] = "run" /\ cKey[2] = k
        /\ parEntry[k].done /\ parEntry[k].result = "err" /\ parEntry[k].holder = 2
        /\ parRuns[k] = 1

\* The build-list modules whose path is the import path or, followed by a
\* slash, begins it.
IsPrefix(a, b) == Len(a) <= Len(b) /\ SubSeq(b, 1, Len(a)) = a
Matching(path) ==
    {i \in 1..Len(buildList) :
        \/ buildList[i].Path = path
        \/ IsPrefix(Chars[buildList[i].Path] \o <<"/">>, Chars[path])}

\* The last importDir call was for a path outside the target module and the
\* standard library.
OutsidePath ==
    /\ ldPath # ""
    /\ ~(ldPath = "t" \/ IsPrefix(<<"t", "/">>, Chars[ldPath]))
    /\ ldPath \notin gorootDirs

PrefixesOf(path) ==
    {q \in DOMAIN Chars \ {"."} :
        \/ q = path
        \/ q # "/" /\ IsPrefix(Chars[q] \o <<"/">>, Chars[path])
        \/ q = "/" /\ Chars[path][1] = "/"}
Qualifying(path) == {q \in PrefixesOf(path) : try(q).err = ""}

\* C19: Import tries the full path and then each path one element shorter
\* than the one before; it returns the longest prefix try succeeds for, and
\* when there is none it fails with the error of the attempt on the full
\* path.
C19_LongestPrefixFirst ==
    /\ \A i \in 1..Len(impTried) :
        /\ i = 1 => impTried[i] = impPath
        /\ i > 1 => /\ impTried[i] \in PrefixesOf(impTried[i - 1])
                    /\ Len(Chars[impTried[i]]) < Len(Chars[impTried[i - 1]])
    /\ (impPath # "" /\ Qualifying(impPath) = {}) =>
           (Len(impTried) <= Cardinality(PrefixesOf(impPath)) /\
            (Len(impTried) = Cardinality(PrefixesOf(impPath))
                 => (impPc = "done" /\ impOut = ImportErr(try(impPath).err))))
    /\ impPc = "done" =>
           IF Qualifying(impPath) = {} THEN impOut = ImportErr(try(impPath).err)
           ELSE /\ impOut.err = ""
                /\ impOut.path \in Qualifying(impPath)
                /\ \A q \in Qualifying(impPath) :
                       Len(Chars[q]) <= Len(Chars[impOut.path])

\* C20: the lists scanDir returns hold no "appengine" and no entry beginning
\* with "appengine/", and are otherwise the scanned lists in their order.
C20_NoAppengineImports ==
    scanOut # <<>> =>
        /\ \A i \in DOMAIN scanOut.imports : ~IsAppengine(scanOut.imports[i])
        /\ \A i \in DOMAIN scanOut.testImports : ~IsAppengine(scanOut.testImports[i])
        /\ scanOut.imports = SelectSeq(scanned.imports, LAMBDA pkg : ~IsAppengine(pkg))
        /\ scanOut.testImports
               = SelectSeq(scanned.testImports, LAMBDA pkg : ~IsAppengine(pkg))

\* The replace entries with an empty old version and the path of mod.
AnyVersionEntries(mod) ==
    {i \in DOMAIN modReplace :
        modReplace[i].Old.Path = mod.Path /\ modReplace[i].Old.Version = ""}

\* C21: a replace entry with an empty old version stands for every version of
\* its old path: Replacement returns its new module for each build-list module
\* of that path, and the fetch importDir makes for an import of that module
\* gives the replacement's directory.
C21_EmptyOldVersionMatchesAny ==
    \A k \in 2..Len(buildList) : \A i \in AnyVersionEntries(buildList[k]) :
        (ldPath # "" /\ ldPkgmod[ldPath] = buildList[k]) =>
            /\ Replacement(buildList[k]) = modReplace[i].New
            /\ modReplace[i].New.Version = "" =>
                   ldDir.root = Place(modReplace[i].New.Path)

\* The edits of modEdits fall in three families, each with its key: the
\* requirements by path, the exclusions and the replacements by module version.
EditFamily(e) ==
    CASE e.op \in {"require", "droprequire"} -> <<"require", e.mod.Path>>
      [] e.op \in {"exclude", "dropexclude"} -> <<"exclude", e.mod>>
      [] e.op \in {"replace", "dropreplace"} -> <<"replace", e.mod>>

\* Edit i is the last of its family and key on the command line.
LastOfKey(i) ==
    \A j \in (i + 1)..Len(modEdits) : EditFamily(modEdits[j]) # EditFamily(modEdits[i])

C23_DisabledLedgerCollects ==
    (chkKey # NoModule /\ ~chkUsed /\ GoSumFile # "") =>
        /\ sumFatal = ""
        /\ chkHash \in Range(sumOf(goSum, chkKey))

\* No entry of the list occurs at two places.
NoRepeat(list) == \A i, j \in DOMAIN list : list[i] = list[j] => i = j

\* C24: once go.sum and go.modverify are read, no key of the ledger holds a
\* hash twice, and a go.sum that WriteGoSum writes has no line twice.
C24_DuplicatesMerged ==
    [][/\ ~goSumNil' => \A k \in DOMAIN goSum' : NoRepeat(goSum'[k])
       /\ sumFile' # sumFile => NoRepeat(sumFile'.lines)]_vars

\* C25: when Download returned the error of the copy into the cache, of the
\* write of the ziphash or of the unzip, the cache holds no zip without its
\* ziphash, no partly written zip and no directory extracted in part.
C25_FailureLeavesNoPartial ==
    (dlPc = "idle" /\ dlErr \in {"copying", "write", "unzip"}) =>
        /\ DlMod \in zipCache =>
               (hashCache[DlMod] # "" /\ zipSum[DlMod] # "partial")
        /\ DlMod \in dirCache => dirSum[DlMod] = zipSum[DlMod]

\* What a step of iterate does for the loop to make progress: a turn that
\* records nothing missing leaves the loop, a turn that goes round has put
\* into the build list a module that was not there before, and the imports
\* recorded missing afterwards are under none of the roots found.
IterProgress ==
    /\ (itPc = "imports" /\ ldMissing' = <<>>) => itPc' \in {"done", "exit"}
    /\ (itPc = "imports" /\ ldMissing' # <<>>) => itPc' = "missing"
    /\ (itPc = "rebuild" /\ itPc' = "imports") =>
           \E k \in DOMAIN buildList' :
               \A j \in DOMAIN prevList : prevList[j].Path # buildList'[k].Path
    /\ itPc = "imports" =>
           \A i \in DOMAIN ldMissing' : \A r \in found :
               ~importPathInModule(ldMissing'[i], r)

\* C26: iterate terminates: it leaves the loop as soon as a turn records no
\* missing import, every findMissing call returns, and every turn that
\* records missing imports adds a module root the build list did not have,
\* under which the next turn finds those imports, or ends the process.
C26_IterateTerminates ==
    [][itPc' # "spin" /\ IterProgress]_vars

\* The requirement on path in the manifest's require list.
RequiredAt(list, path) == {list[i].Version : i \in {j \in DOMAIN list : list[j].Path = path}}

\* C27: findMissing adds a module root at most once in a process, to the
\* build list and to go.mod in the same call; a resolution to a root already
\* found is the fatal "findmissing loop"; a missing import that a module of
\* the build list covers, one appended earlier in the round included, is
\* skipped with no error and no add.
C27_RootAddedOnce ==
    [][/\ NoRepeat(addLog') /\ found' = Range(addLog')
       /\ addLog' # addLog =>
              \E m \in {buildList'[Len(buildList')]} :
                  /\ addLog' = Append(addLog, m.Path)
                  /\ buildList' = Append(buildList, m)
                  /\ RequiredAt(modRequire, m.Path) = {}
                  /\ RequiredAt(modRequire', m.Path) = {m.Version}
       /\ (itPc = "missing" /\ addLog' = addLog) =>
              (buildList' = buildList /\ modRequire' = modRequire)
       /\ (itPc = "missing" /\ coveredBy(ldMissing[itIdx]) # {}) =>
              /\ fatal' = fatal /\ itErr' = itErr /\ addLog' = addLog
              /\ itPc' \in {"missing", "rebuild"}
       /\ (itPc = "missing" /\ coveredBy(ldMissing[itIdx]) = {}
             /\ importFrom(ldMissing[itIdx], "").path \in found) =>
              (fatal' = "findmissing loop" /\ itPc' = "exit")
       /\ fatal' = "findmissing loop" => addLog' = addLog]_vars

\* The package imports a/b/c and a/b and only a is hosted: the first call
\* adds a, the second finds a/b covered, and the next turn adds d.
C27_Witness ==
    /\ itPc = "done" /\ srcImports = <<"a/b/c", "a/b">> /\ addLog = <<"a", "d">>
    /\ buildList = <<Target, MV("a", "v1.0.0"), MV("d", "v1.0.0")>>
    /\ modRequire = <<MV("a", "v1.0.0"), MV("d", "v1.0.0")>>

\* What Query selects for "latest" for the module Upgrade was called with.
UpLatest == Query(upArg.Path, "latest").info.Version

\* Upgrade was called with the pseudo-version, returned no error, and
\* "latest" is a tag of the repository.
UpPseudoCase ==
    /\ upArg.Version = PseudoVersion /\ upOut.err = ""
    /\ UpLatest \in Range(repoTags[upArg.Path])

\* What the claim and its amendment share: the result is m or the latest
\* version, never lower than m, and m when m is a pseudo-version of a later
\* time than the latest tag's commit.
UpgradeKeeps ==
    (upArg # NoModule /\ upOut.err = "") =>
        /\ upOut.mod \in {upArg, MV(upArg.Path, UpLatest)}
        /\ Compare(upOut.mod.Version, upArg.Version) >= 0
        /\ (UpPseudoCase /\ PseudoTime > tagTime[UpLatest]) => upOut.mod = upArg

ResolvedFor(p) ==
    {Stat(m.Path, m.Version).info.Version :
        m \in {n \in workOf(legacy) : n.Path = p /\ Stat(n.Path, n.Version).err = ""}}

\* The largest version of a set that is not empty.
LargestOf(S) == CHOOSE v \in S : \A w \in S : Compare(v, w) >= 0

\* The requirements of go.mod on the path p.
RequiresOn(p) == {k \in DOMAIN modRequire : modRequire[k].Path = p}

NoImportComment == srcTree.top = "" /\ srcTree.sub = ""

\* C30: for a directory under the src directory of a GOPATH entry,
\* FindModulePath returns the ImportPath of Godeps/Godeps.json when there is
\* one, and with no import comment and no other hint it returns the
\* directory's path relative to GOPATH/src, without error.
C30_GopathRelativePath ==
    (fmDir # <<>> /\ RelToGopath(fmDir, 1) # "" /\ NoImportComment) =>
        /\ srcTree.godeps # "" => fmOut = [path |-> srcTree.godeps, err |-> ""]
        /\ srcTree = NoHints => fmOut = [path |-> RelToGopath(fmDir, 1), err |-> ""]

====
